---------------------------- MODULE Spec2Model ----------------------------
(***************************************************************************)
(* A model of the email-identity inference pipeline of b2b-email-campaign: *)
(* the background task runner (engine/task_runner.py), the domain finder   *)
(* (engine/domain_finder.py), the pattern inference (engine/               *)
(* email_pattern.py) and the verifier (engine/email_verifier.py).          *)
(*                                                                         *)
(* Conventions.  Python's None is the string None where the value is a     *)
(* string, and the empty sequence where it is an address.  A local part    *)
(* or a name is a sequence of one-character strings.  An address is the    *)
(* sequence of the parts str.split("@") gives: <<local, domain>> for       *)
(* local@domain.  A confidence is an integer number of hundredths.         *)
(***************************************************************************)
EXTENDS Integers, Sequences, FiniteSets, TLC

VARIABLES
    domainCache, \* data/cache/domain_cache.json: slug -> domain or null
    fd,          \* the frame of each caller of find_domain
    fdLog,       \* the find_domain calls that returned, oldest first
    fb,          \* the frame of one find_best_email call
    smtp,        \* one smtp_check_email call: its input, the network, its result
    patternCache, \* data/cache/pattern_cache.json: domain -> stored result
    ip,          \* the frame of each caller of infer_pattern
    ipLog,       \* the infer_pattern calls that returned, oldest first
    progress,    \* data/task_progress.json
    w,           \* the frame of each worker thread, with the history of its run
    es,          \* the committed rows of the email_suggestions table
    dbLock,      \* the thread whose connection holds the database write lock
    runs,        \* the invocations of run_email_search made so far
    ge,          \* one generate_email call followed by the structural guess
    up,          \* the frame of each connection that runs upsert_email_suggestion
    upLog,       \* the rows of the upserts that were committed, oldest first
    messages,    \* the rows of the messages table, ordered by id
    outbox,      \* the committed rows of the outbox table, ordered by id
    ob,          \* the frame of build_outbox, with the table's id counter
    snd,         \* the frame of one send_ready_emails call and of its caller
    nz,          \* one company name, its key and the key of its key
    mailbox,     \* the IMAP folder: its messages in sequence-number order
    seenFile,    \* data/cache/seen_bounces.json: the identifiers already processed
    bt,          \* the frame of check_bounces, with the history of the completed runs
    cr           \* the frame of one _crawl_site call, with the pages it fetched

vars == <<domainCache, fd, fdLog, fb, smtp, patternCache, ip, ipLog,
          progress, w, es, dbLock, runs, ge, up, upLog, messages, outbox, ob, snd,
          nz,
          mailbox, seenFile, bt,
          cr>>

domainVars == <<domainCache, fd, fdLog>>

verifyVars == <<fb>>

smtpVars == <<smtp>>

patternVars == <<patternCache, ip, ipLog>>

runVars == <<progress, w, es, dbLock, runs>>

guessVars == <<ge>>

upsertVars == <<up, upLog>>

outboxVars == <<messages, outbox, ob>>

sendVars == <<snd>>

crawlVars == <<cr>>

bounceVars == <<mailbox, seenFile, bt>>

normalizeVars == <<nz>>

\* What the actions of one component leave alone.
otherThanDomain == <<crawlVars, bounceVars, normalizeVars, outboxVars, sendVars, upsertVars, verifyVars, smtpVars, patternVars, runVars, guessVars>>

otherThanVerify == <<crawlVars, bounceVars, normalizeVars, outboxVars, sendVars, upsertVars, domainVars, smtpVars, patternVars, runVars, guessVars>>

otherThanSmtp == <<crawlVars, bounceVars, normalizeVars, outboxVars, sendVars, upsertVars, domainVars, verifyVars, patternVars, runVars, guessVars>>

otherThanPattern == <<crawlVars, bounceVars, normalizeVars, outboxVars, sendVars, upsertVars, domainVars, verifyVars, smtpVars, runVars, guessVars>>

otherThanGuess == <<crawlVars, bounceVars, normalizeVars, outboxVars, sendVars, domainVars, verifyVars, smtpVars, patternVars, runVars, upsertVars>>

\* The upserts write the suggestions table under the database write lock.
otherThanUpsert == <<crawlVars, bounceVars, normalizeVars, outboxVars, sendVars, domainVars, verifyVars, smtpVars, patternVars, guessVars,
                     progress, w, runs>>

\* The task runner writes the domain cache through find_domain.
otherThanRun == <<crawlVars, bounceVars, normalizeVars, outboxVars, sendVars, fd, fdLog, verifyVars, smtpVars, patternVars, guessVars, upsertVars>>

\* build_outbox reads the suggestions and writes the messages' index, the
\* outbox and its own frame.
otherThanOutbox == <<crawlVars, bounceVars, normalizeVars, domainVars, verifyVars, smtpVars, patternVars, guessVars,
                     upsertVars, runVars, sendVars>>

otherThanNormalize == <<crawlVars, bounceVars, domainVars, verifyVars, smtpVars, patternVars, guessVars,
                        upsertVars, runVars, outboxVars, sendVars>>

otherThanCrawl == <<bounceVars, normalizeVars, domainVars, verifyVars, smtpVars, patternVars, guessVars,
                    upsertVars, runVars, outboxVars, sendVars>>

\* check_bounces writes the outbox, the seen file and its own frame.
otherThanBounce == <<crawlVars, normalizeVars, domainVars, verifyVars, smtpVars, patternVars, guessVars,
                     upsertVars, runVars, sendVars, messages, ob>>

\* A send run writes the outbox and its own frame.
otherThanSend == <<crawlVars, bounceVars, normalizeVars, domainVars, verifyVars, smtpVars, patternVars, guessVars,
                   upsertVars, runVars, messages, ob>>

None == "None"

Min(a, b) == IF a <= b THEN a ELSE b

Max(a, b) == IF a >= b THEN a ELSE b

(***************************************************************************)
(* engine/normalize.py                                                     *)
(***************************************************************************)

\* str.lower() followed by _strip_accents, on the characters of the model
\* that both map to one character.
LowerNoAccent(c) ==
    CASE c = "A" -> "a"
      [] c = "B" -> "b"
      [] c = "C" -> "c"
      [] c = "E" -> "e"
      [] c = "M" -> "m"
      [] c = "O" -> "o"
      [] c = "S" -> "s"
      [] c = "é" -> "e"
      [] c = "É" -> "e"
      [] OTHER -> c

\* Lines 16-18 and 29-30: name.lower() and then _strip_accents on one
\* character.  NFKD, which runs after the lowercasing, replaces a
\* compatibility character by its decomposition, capitals included: the
\* trade mark sign, written "(tm)" here, becomes TM.
Folded(c) == IF c = "(tm)" THEN <<"T", "M">> ELSE <<LowerNoAccent(c)>>

RECURSIVE FoldChars(_)
FoldChars(s) ==
    IF s = <<>> THEN <<>> ELSE Folded(Head(s)) \o FoldChars(Tail(s))

\* The characters re's \w keeps: the letters, digits and underscore left by
\* the lowercasing, and the capitals the decomposition brings.
WordChars ==
    {"T", "M", "a", "b", "c", "d", "e", "f", "g", "h", "i", "j", "k", "l", "m", "n", "o",
     "p", "q", "r", "s", "t", "u", "v", "w", "x", "y", "z", "0", "1", "2", "3",
     "4", "5", "6", "7", "8", "9", "_"}

IsWordChar(c) == c \in WordChars

RECURSIVE NormChars(_)
NormChars(s) ==
    IF s = <<>> THEN <<>>
    ELSE LET c == Head(s)
         IN  IF IsWordChar(c) THEN <<c>> \o NormChars(Tail(s))
             ELSE NormChars(Tail(s))

\* normalize_name_part: lowercase, strip accents, remove whitespace and
\* hyphens, then every remaining non-word character.
normalize_name_part(name) == NormChars(FoldChars(name))

LEGAL_FORMS ==
    {<<"s", "a", "s">>, <<"s", "a", "s", "u">>, <<"s", "a", "r", "l">>,
     <<"e", "u", "r", "l">>, <<"s", "a">>, <<"s", "c", "i">>,
     <<"s", "n", "c">>, <<"s", "c", "c", "v">>, <<"s", "e", "l", "a", "r", "l">>,
     <<"s", "e", "l", "a", "s">>, <<"g", "m", "b", "h">>, <<"l", "t", "d">>,
     <<"l", "l", "c">>, <<"i", "n", "c">>, <<"b", "v">>,
     <<"n", "v">>, <<"s", "p", "a">>, <<"p", "l", "c">>,
     <<"a", "g">>, <<"c", "o">>, <<"c", "o", "r", "p">>}

\* Lines 31-32 of normalize_company, on the lowercased text without accents:
\* "&" to " et ", every other character that is neither a word character nor
\* a space to a space.
RECURSIVE CompanyChars(_)
CompanyChars(s) ==
    IF s = <<>> THEN <<>>
    ELSE LET c == Head(s)
         IN  (IF c = "&" THEN <<" ", "e", "t", " ">>
              ELSE IF IsWordChar(c) \/ c = " " THEN <<c>>
              ELSE <<" ">>) \o CompanyChars(Tail(s))

\* str.split(): the maximal runs of non-space characters; cur is the run read
\* so far.
RECURSIVE SplitWs(_, _)
SplitWs(s, cur) ==
    IF s = <<>> THEN (IF cur = <<>> THEN <<>> ELSE <<cur>>)
    ELSE IF Head(s) = " "
         THEN (IF cur = <<>> THEN <<>> ELSE <<cur>>) \o SplitWs(Tail(s), <<>>)
         ELSE SplitWs(Tail(s), Append(cur, Head(s)))

\* " ".join(tokens)
RECURSIVE JoinSp(_)
JoinSp(tokens) ==
    IF tokens = <<>> THEN <<>>
    ELSE IF Len(tokens) = 1 THEN tokens[1]
    ELSE tokens[1] \o <<" ">> \o JoinSp(Tail(tokens))

\* Line 34: the tokens that are no legal form.
KeptTokens(tokens) == SelectSeq(tokens, LAMBDA t : t \notin LEGAL_FORMS)

normalize_company(name) ==
    JoinSp(KeptTokens(SplitWs(CompanyChars(FoldChars(name)), <<>>)))

\* company_to_slug: the key without its whitespace.
company_to_slug(name) == SelectSeq(normalize_company(name), LAMBDA c : c # " ")

(***************************************************************************)
(* engine/email_pattern.py: the nine construction rules                    *)
(***************************************************************************)

PATTERN_DEFS ==
    <<"prenom.nom", "prenomnom", "pnom", "p.nom", "prenom",
      "nom.prenom", "nom", "nomp", "prenom_nom">>

PatternNames == {PATTERN_DEFS[i] : i \in 1..Len(PATTERN_DEFS)}

\* The lambda of rule p applied to (f, l).
PatternFunc(p, f, l) ==
    CASE p = "prenom.nom" -> f \o <<".">> \o l
      [] p = "prenomnom"  -> f \o l
      [] p = "pnom"       -> IF f # <<>> THEN <<f[1]>> \o l ELSE l
      [] p = "p.nom"      -> IF f # <<>> THEN <<f[1], ".">> \o l ELSE l
      [] p = "prenom"     -> f
      [] p = "nom.prenom" -> l \o <<".">> \o f
      [] p = "nom"        -> l
      [] p = "nomp"       -> IF f # <<>> THEN l \o <<f[1]>> ELSE l
      [] p = "prenom_nom" -> f \o <<"_">> \o l

(***************************************************************************)
(* engine/email_verifier.py: smtp_check_email                              *)
(***************************************************************************)

\* The reply codes a server gives to RCPT TO in the model.
RcptCodes == {250, 251, 252, 421, 450, 451, 452, 500, 501, 503,
              550, 551, 552, 553, 554, 555}

\* The steps of the SMTP dialogue at which the transport can fail
\* (timeout, disconnect, refused connection, any other exception).
SmtpSteps == {"connect", "ehlo", "starttls", "mail", "rcpt", "quit"}

\* What the network does during one probe: whether the MX lookup gives a
\* host, the step whose call raises (none: no step), whether the server
\* refuses STARTTLS with an SMTPException, and the reply code to RCPT TO.
SmtpNets ==
    [mx : BOOLEAN, fail : SmtpSteps \cup {"none"}, tlsRefused : BOOLEAN,
     code : RcptCodes]

\* _get_mx_host: the host, or None on any resolver failure.
_get_mx_host(net) == IF net.mx THEN "mx" ELSE None

\* A mapping by reply class: every 2xx accepted, every 5xx rejected.
RcptVerdict_ByClass(code) ==
    IF code \in 200..299 THEN "valid"
    ELSE IF code \in 500..599 THEN "invalid"
    ELSE "unknown"

\* The mapping of the reply code at the end of the try block.
RcptVerdict(code) ==
    IF code = 250 THEN "valid"
    ELSE IF code \in {550, 551, 552, 553, 554} THEN "invalid"
    ELSE "unknown"

\* smtp_check_email(email) under network behaviour net.  "raise" stands for
\* an exception leaving the function.
smtp_check_email(email, net) ==
    IF Len(email) < 2 THEN "raise"            \* email.split("@")[1]
    ELSE IF _get_mx_host(net) = None THEN "unknown"
    ELSE IF net.fail \in {"connect", "ehlo"} THEN "unknown"
    ELSE IF net.fail = "starttls" /\ ~net.tlsRefused THEN "unknown"
    ELSE IF net.fail \in {"mail", "rcpt", "quit"} THEN "unknown"
    ELSE RcptVerdict(net.code)

\* The network behaviours a probe of find_best_email meets in the model: one
\* for each way smtp_check_email ends (no MX host, a transport failure, an
\* accepting, a rejecting and a transient reply).
ProbeNets ==
    [mx : BOOLEAN, fail : {"none", "connect"}, tlsRefused : {FALSE},
     code : {250, 450, 550}]

\* _is_catch_all: the probe of a random local part reports valid.
FakeLocal == <<"z", "z", "z">>

_is_catch_all(domain, net) == smtp_check_email(<<FakeLocal, domain>>, net) = "valid"

(***************************************************************************)
(* engine/email_verifier.py: the reputation provider                       *)
(***************************************************************************)

\* pattern_map of hunter_domain_search, with its default.
HunterPatternMap(raw) ==
    CASE raw = "{first}.{last}" -> "prenom.nom"
      [] raw = "{first}{last}"  -> "prenomnom"
      [] raw = "{f}{last}"      -> "pnom"
      [] raw = "{f}.{last}"     -> "p.nom"
      [] raw = "{first}"        -> "prenom"
      [] raw = "{last}.{first}" -> "nom.prenom"
      [] raw = "{last}"         -> "nom"
      [] raw = "{last}{f}"      -> "nomp"
      [] raw = "{first}_{last}" -> "prenom_nom"
      [] OTHER -> "prenom.nom"

\* The raw patterns the provider answers in the model: two it knows, one the
\* map does not hold, and JSON null.
HunterRawPatterns == {"{first}.{last}", "{f}{last}", "{x}", None}

\* What the provider's /domain-search does: no answer (no key, a status other
\* than 200, an exception), or a raw pattern.
HunterSearchReplies == [ok : BOOLEAN, raw : HunterRawPatterns]

\* hunter_domain_search: None (ok = FALSE) or the mapped pattern at the fixed
\* confidence 0.85.
hunter_domain_search(key, reply) ==
    IF ~key \/ ~reply.ok
    THEN [ok |-> FALSE, pattern |-> None, confidence |-> 0, raw_pattern |-> None]
    ELSE [ok |-> TRUE, pattern |-> HunterPatternMap(reply.raw), confidence |-> 85,
          raw_pattern |-> reply.raw]

HunterVerdicts == {"deliverable", "undeliverable", "risky", "unknown"}

HunterVerifyReplies == [ok : BOOLEAN, result : HunterVerdicts]

\* hunter_verify_email: None (ok = FALSE) or the provider's verdict.
hunter_verify_email(key, reply) ==
    IF ~key \/ ~reply.ok
    THEN [ok |-> FALSE, result |-> None]
    ELSE [ok |-> TRUE, result |-> reply.result]

(***************************************************************************)
(* engine/email_verifier.py: find_best_email, one action per network step  *)
(***************************************************************************)

NoEmail == <<>>

NoHunter == [ok |-> FALSE, pattern |-> None, confidence |-> 0, raw_pattern |-> None]

NoResult == [email |-> NoEmail, pattern |-> None, conf |-> 0, debug |-> None]

\* The raw first and last names of the model.
RawFirstNames == {<<"-">>, <<"A">>, <<"é", "-", "B">>}

RawLastNames == {<<"-">>, <<"B", "a">>}

FbDomains == {"", "d.fr"}

DefaultPriority ==
    <<"prenom.nom", "p.nom", "prenomnom", "pnom",
      "prenom_nom", "nom.prenom", "prenom", "nom", "nomp">>

\* A priority order that does not remove the known pattern from the rest.
PriorityOrder_KnownTwice(known_pattern) ==
    IF known_pattern # None /\ known_pattern # ""
    THEN <<known_pattern>> \o PATTERN_DEFS
    ELSE DefaultPriority

\* priority_order of find_best_email.
PriorityOrder(known_pattern) ==
    IF known_pattern # None /\ known_pattern # ""
    THEN <<known_pattern>> \o SelectSeq(PATTERN_DEFS, LAMBDA p : p # known_pattern)
    ELSE DefaultPriority

\* candidates: one (pname, address) per name of the priority order that is a
\* rule of PATTERN_DEFS.
RECURSIVE Candidates(_, _, _, _)
Candidates(order, f, l, domain) ==
    IF order = <<>> THEN <<>>
    ELSE LET pname == Head(order)
             rest  == Candidates(Tail(order), f, l, domain)
         IN  IF pname \in PatternNames
             THEN <<[pname |-> pname, email |-> <<PatternFunc(pname, f, l), domain>>]>> \o rest
             ELSE rest

\* The address built from the provider's pattern.
HunterEmail(pattern, f, l, domain) ==
    IF pattern \in PatternNames
    THEN <<PatternFunc(pattern, f, l), domain>>
    ELSE <<f \o <<".">> \o l, domain>>

FbIdle ==
    [pc |-> "idle", firstname |-> <<>>, lastname |-> <<>>, domain |-> "",
     known_pattern |-> None, skip_smtp |-> FALSE, key |-> FALSE,
     f |-> <<>>, l |-> <<>>, hunter |-> NoHunter, hunterEmail |-> NoEmail,
     verdict |-> "not_asked", candidates |-> <<>>, catchAll |-> "not_probed",
     idx |-> 0, invalid_count |-> 0, probes |-> <<>>, result |-> NoResult]

\* find_best_email is called: lines 226-232.
FbCall ==
    /\ fb.pc = "idle"
    /\ \E fn \in RawFirstNames, ln \in RawLastNames, d \in FbDomains,
          kp \in PatternNames \cup {None}, skip \in BOOLEAN, key \in BOOLEAN :
          LET f == normalize_name_part(fn)
              l == normalize_name_part(ln)
              fr == [FbIdle EXCEPT !.firstname = fn, !.lastname = ln, !.domain = d,
                                   !.known_pattern = kp, !.skip_smtp = skip,
                                   !.key = key, !.f = f, !.l = l]
          IN  IF f = <<>> \/ l = <<>> \/ d = ""
              THEN fb' = [fr EXCEPT !.pc = "done",
                            !.result = [email |-> NoEmail, pattern |-> "prenom.nom",
                                        conf |-> 0,
                                        debug |-> "nom/prénom/domaine manquant"]]
              ELSE fb' = [fr EXCEPT !.pc = "hunter"]
    /\ UNCHANGED otherThanVerify

\* Strategy 1, the domain search: lines 235-245.
FbHunterSearch ==
    /\ fb.pc = "hunter"
    /\ \E reply \in HunterSearchReplies :
          LET h == hunter_domain_search(fb.key, reply)
          IN  IF h.ok
              THEN fb' = [fb EXCEPT !.pc = "verify", !.hunter = h,
                            !.hunterEmail = HunterEmail(h.pattern, fb.f, fb.l, fb.domain)]
              ELSE fb' = [fb EXCEPT !.pc = "candidates"]
    /\ UNCHANGED otherThanVerify

\* A provider branch with the confidences of its two unverified returns
\* exchanged.
HunterBranchConf_Swapped(v, h) ==
    IF v.ok
    THEN IF v.result = "deliverable" THEN 95 ELSE h.confidence
    ELSE 80

\* The confidence the provider branch returns with: 0.95 for a deliverable
\* verdict, 0.80 for another verdict, the provider's own confidence when the
\* verification is unavailable (lines 248-258).
HunterBranchConf(v, h) ==
    IF v.ok
    THEN IF v.result = "deliverable" THEN 95 ELSE 80
    ELSE h.confidence

\* Strategy 1, the verification of the provider's address: lines 247-258.
FbHunterVerify ==
    /\ fb.pc = "verify"
    /\ \E reply \in HunterVerifyReplies :
          LET v == hunter_verify_email(fb.key, reply)
          IN  IF v.ok
              THEN IF v.result = "deliverable"
                   THEN fb' = [fb EXCEPT !.pc = "done", !.verdict = v.result,
                                 !.result = [email |-> fb.hunterEmail,
                                             pattern |-> fb.hunter.pattern,
                                             conf |-> HunterBranchConf(v, fb.hunter),
                                             debug |-> "Hunter.io: vérifié"]]
                   ELSE IF v.result = "undeliverable"
                   THEN fb' = [fb EXCEPT !.pc = "candidates", !.verdict = v.result]
                   ELSE fb' = [fb EXCEPT !.pc = "done", !.verdict = v.result,
                                 !.result = [email |-> fb.hunterEmail,
                                             pattern |-> fb.hunter.pattern,
                                             conf |-> HunterBranchConf(v, fb.hunter),
                                             debug |-> "Hunter.io: verdict"]]
              ELSE fb' = [fb EXCEPT !.pc = "done", !.verdict = "unavailable",
                            !.result = [email |-> fb.hunterEmail,
                                        pattern |-> fb.hunter.pattern,
                                        conf |-> HunterBranchConf(v, fb.hunter),
                                        debug |-> "Hunter.io: pattern"]]
    /\ UNCHANGED otherThanVerify

\* A first-candidate result without the split between prenom.nom and the
\* other rules.
FirstCandidateResult_NoSplit(cands, base, debug) ==
    [email |-> cands[1].email, pattern |-> cands[1].pname, conf |-> base,
     debug |-> debug]

\* The confidence of an unverified first candidate, given the base for
\* prenom.nom: 0.50/0.40 without SMTP signal, 0.55/0.45 on a catch-all domain.
FirstCandidateResult(cands, base, debug) ==
    [email |-> cands[1].email, pattern |-> cands[1].pname,
     conf |-> IF cands[1].pname = "prenom.nom" THEN base ELSE base - 10,
     debug |-> debug]

\* Strategy 2, the candidates, and the skip_smtp return: lines 260-291.
FbCandidates ==
    /\ fb.pc = "candidates"
    /\ LET cands == Candidates(PriorityOrder(fb.known_pattern), fb.f, fb.l, fb.domain)
       IN  IF cands = <<>>
           THEN fb' = [fb EXCEPT !.pc = "done",
                         !.result = [email |-> NoEmail, pattern |-> "prenom.nom",
                                     conf |-> 0,
                                     debug |-> "impossible de générer des candidats"]]
           ELSE IF fb.skip_smtp
           THEN fb' = [fb EXCEPT !.pc = "done", !.candidates = cands,
                         !.result = FirstCandidateResult(cands, 50,
                                        "pas de vérification SMTP")]
           ELSE fb' = [fb EXCEPT !.pc = "catch_all", !.candidates = cands]
    /\ UNCHANGED otherThanVerify

\* Strategy 3, the catch-all probe: lines 294-300.
FbCatchAll ==
    /\ fb.pc = "catch_all"
    /\ \E net \in ProbeNets :
          LET r == smtp_check_email(<<FakeLocal, fb.domain>>, net)
          IN  IF _is_catch_all(fb.domain, net)
              THEN fb' = [fb EXCEPT !.pc = "done", !.catchAll = r,
                            !.result = FirstCandidateResult(fb.candidates, 55,
                                           "domaine catch-all (SMTP non fiable)")]
              ELSE fb' = [fb EXCEPT !.pc = "probe", !.catchAll = r, !.idx = 1]
    /\ UNCHANGED otherThanVerify

\* The confidence of the first valid candidate: line 322.
ValidConfidence(invalid_count) == Min(95, 75 + invalid_count * 5)

\* Strategy 3, one turn of the loop over the candidates: lines 306-324.
FbProbe ==
    /\ fb.pc = "probe"
    /\ fb.idx <= Len(fb.candidates)
    /\ \E net \in ProbeNets :
          LET c == fb.candidates[fb.idx]
              r == smtp_check_email(c.email, net)
              log == Append(fb.probes, [pname |-> c.pname, email |-> c.email,
                                        result |-> r])
          IN  IF r = "valid"
              THEN fb' = [fb EXCEPT !.pc = "done", !.probes = log,
                            !.result = [email |-> c.email, pattern |-> c.pname,
                                        conf |-> ValidConfidence(fb.invalid_count),
                                        debug |-> "SMTP vérifié"]]
              ELSE IF r = "invalid"
              THEN fb' = [fb EXCEPT !.probes = log, !.idx = @ + 1,
                            !.invalid_count = @ + 1]
              ELSE fb' = [fb EXCEPT !.probes = log, !.idx = @ + 1]
    /\ UNCHANGED otherThanVerify

\* No candidate was confirmed valid: lines 326-330.
FbInconclusive ==
    /\ fb.pc = "probe"
    /\ fb.idx > Len(fb.candidates)
    /\ fb' = [fb EXCEPT !.pc = "done",
                !.result = FirstCandidateResult(fb.candidates, 50, "SMTP inconcluant")]
    /\ UNCHANGED otherThanVerify

(***************************************************************************)
(* One call of smtp_check_email on an address, under one network behaviour *)
(***************************************************************************)

SmtpIdle ==
    [pc |-> "idle", email |-> <<>>,
     net |-> [mx |-> FALSE, fail |-> "none", tlsRefused |-> FALSE, code |-> 250],
     result |-> None]

\* The addresses probed: without "@", local@domain, and with two "@".
SmtpEmails == {<<<<"a">>>>, <<<<"a">>, "d.fr">>, <<<<"a">>, "d.fr", "x">>}

SmtpCheck ==
    /\ smtp.pc = "idle"
    /\ \E email \in SmtpEmails, net \in SmtpNets :
          smtp' = [pc |-> "done", email |-> email, net |-> net,
                   result |-> smtp_check_email(email, net)]
    /\ UNCHANGED otherThanSmtp

SmtpReturn ==
    /\ smtp.pc = "done"
    /\ smtp' = SmtpIdle
    /\ UNCHANGED otherThanSmtp

(***************************************************************************)
(* engine/domain_finder.py                                                 *)
(***************************************************************************)

\* Bounds of the domain finder's model: the calls a behaviour makes and the
\* result links one search query returns.
MaxFdCalls == 2

MaxUrls == 2

NoDomain == <<>>

IGNORE_DOMAINS ==
    {"google.com", "google.fr", "facebook.com", "linkedin.com", "twitter.com",
     "youtube.com", "instagram.com", "wikipedia.org", "pinterest.com",
     "tiktok.com", "x.com", "reddit.com", "amazon.com", "yelp.com",
     "tripadvisor.com", "pagesjaunes.fr", "societe.com", "infogreffe.fr",
     "verif.com", "pappers.fr", "indeed.com", "glassdoor.com",
     "duckduckgo.com", "bing.com"}

\* A result link: its host name without a leading "www.", and whether the
\* link carries that prefix.
UrlHosts == {"acme-corp.com", "b.io", "linkedin.com", "localhost"}

Urls == [www : BOOLEAN, host : UrlHosts]

HasDot(host) == host # "localhost"

\* _extract_domain: the host without "www.", or None when it has no dot or is
\* on the ignore list.  A domain is a sequence of strings: <<host>> here.
_extract_domain(url) ==
    IF HasDot(url.host) /\ url.host \notin IGNORE_DOMAINS THEN <<url.host>> ELSE NoDomain

\* What one search query returns: at most MaxUrls links (a failed query
\* returns the links read before the failure, possibly none).
QueryResults == UNION {[1..n -> Urls] : n \in 0..MaxUrls}

\* candidate_domains is a dict: its keys in insertion order, with their counts.
RECURSIVE TallyAdd(_, _)
TallyAdd(tally, d) ==
    IF tally = <<>> THEN <<[d |-> d, n |-> 1]>>
    ELSE IF Head(tally).d = d THEN <<[d |-> d, n |-> Head(tally).n + 1]>> \o Tail(tally)
    ELSE <<Head(tally)>> \o TallyAdd(Tail(tally), d)

\* Lines 135-138: the links of one query added to the tally.
RECURSIVE TallyUrls(_, _)
TallyUrls(tally, urls) ==
    IF urls = <<>> THEN tally
    ELSE LET d == _extract_domain(Head(urls))
         IN  TallyUrls(IF d # NoDomain THEN TallyAdd(tally, d) ELSE tally, Tail(urls))

\* A pick that takes the first candidate found, whatever its count.
TallyFirst(tally) == tally[1]

\* max(candidate_domains, key=candidate_domains.get): the first key, in
\* insertion order, with the greatest count.
RECURSIVE TallyBest(_)
TallyBest(tally) ==
    IF Len(tally) = 1 THEN tally[1]
    ELSE LET rest == TallyBest(Tail(tally))
         IN  IF tally[1].n >= rest.n THEN tally[1] ELSE rest

GuessTlds == <<".fr", ".com", ".eu", ".io", ".net">>

\* The cache dict with cache[k] = v.
CachePut(cache, k, v) ==
    [x \in DOMAIN cache \cup {k} |-> IF x = k THEN v ELSE cache[x]]

EmptyCache == [x \in {} |-> NoDomain]

\* A cache short-circuit that takes a cached null for a missing entry.
DomainCacheHit_SkipsNull(cache, slug, force_refresh) ==
    ~force_refresh /\ slug \in DOMAIN cache /\ cache[slug] # NoDomain

\* Line 120: the cache short-circuit.
DomainCacheHit(cache, slug, force_refresh) == ~force_refresh /\ slug \in DOMAIN cache

\* The company names callers pass: two spellings with the slug acme, one with
\* the slug bo, one whose slug is empty.
Companies ==
    {<<"A", "c", "m", "e", " ", "S", "A", "S">>, <<"a", "c", "m", "e">>,
     <<"B", "o">>, <<"S", "A">>}

\* The threads that can be inside find_domain: the worker of the pipeline
\* and the script of the Find Emails page.
FdCallers == {"c1", "c2"}

\* got is the number of links each query returned, looked the _has_mx calls
\* made, in order, with their answers.
FdIdle ==
    [pc |-> "idle", company |-> <<>>, slug |-> <<>>, force |-> FALSE,
     cache |-> EmptyCache, tally |-> <<>>, q |-> 0, mx |-> 0, gi |-> 0,
     got |-> <<>>, looked |-> <<>>,
     result |-> NoDomain]

\* _has_mx(d) has answered.
Looked(frame, d, has_mx) == Append(frame.looked, [d |-> d, has_mx |-> has_mx])

FdCallsStarted == Len(fdLog) + Cardinality({c \in FdCallers : fd[c].pc # "idle"})

\* find_domain is called: lines 114-124.
FdCall(c) ==
    /\ fd[c].pc = "idle"
    /\ FdCallsStarted < MaxFdCalls
    /\ \E company \in Companies, force \in BOOLEAN :
          LET slug == company_to_slug(company)
              fr == [FdIdle EXCEPT !.company = company, !.slug = slug, !.force = force]
          IN  IF slug = <<>>
              THEN fd' = [fd EXCEPT ![c] = [fr EXCEPT !.pc = "done"]]
              ELSE IF DomainCacheHit(domainCache, slug, force)
              THEN fd' = [fd EXCEPT ![c] = [fr EXCEPT !.pc = "done", !.cache = domainCache,
                                                     !.result = domainCache[slug]]]
              ELSE fd' = [fd EXCEPT ![c] = [fr EXCEPT !.pc = "search", !.cache = domainCache]]
    /\ UNCHANGED <<domainCache, fdLog, otherThanDomain>>

\* Strategy 1, one of the two search queries, whose links are drawn from
\* results: lines 133-139.
FdSearchFrom(c, results) ==
    /\ fd[c].pc = "search"
    /\ \E urls \in results :
          fd' = [fd EXCEPT ![c].tally = TallyUrls(@, urls),
                           ![c].got = Append(@, Len(urls)),
                           ![c].q = @ + 1,
                           ![c].pc = IF fd[c].q + 1 = 2 THEN "pick" ELSE "search"]
    /\ UNCHANGED <<domainCache, fdLog, otherThanDomain>>

FdSearch(c) == FdSearchFrom(c, QueryResults)

\* cache[slug] = value; _save_cache(cache); return value.
FdSaveAndReturn(c, value, lookups) ==
    /\ domainCache' = CachePut(fd[c].cache, fd[c].slug, value)
    /\ fd' = [fd EXCEPT ![c].pc = "done", ![c].result = value,
                        ![c].cache = CachePut(fd[c].cache, fd[c].slug, value),
                        ![c].looked = IF lookups = 1 THEN Looked(fd[c], value, TRUE) ELSE @,
                        ![c].mx = @ + lookups]

\* Lines 142-148: the most frequent candidate, accepted if it has an MX record.
FdPick(c) ==
    /\ fd[c].pc = "pick"
    /\ IF fd[c].tally # <<>>
       THEN \E has_mx \in BOOLEAN :
               IF has_mx
               THEN FdSaveAndReturn(c, TallyBest(fd[c].tally).d, 1)
               ELSE /\ fd' = [fd EXCEPT ![c].pc = "guess", ![c].gi = 1, ![c].mx = @ + 1,
                                        ![c].looked =
                                            Looked(fd[c], TallyBest(fd[c].tally).d, FALSE)]
                    /\ UNCHANGED domainCache
       ELSE /\ fd' = [fd EXCEPT ![c].pc = "guess", ![c].gi = 1]
            /\ UNCHANGED domainCache
    /\ UNCHANGED <<fdLog, otherThanDomain>>

\* Strategy 2, one guess slug + tld: lines 151-157.
FdGuess(c) ==
    /\ fd[c].pc = "guess"
    /\ fd[c].gi <= Len(GuessTlds)
    /\ \E has_mx \in BOOLEAN :
          IF has_mx
          THEN FdSaveAndReturn(c, fd[c].slug \o <<GuessTlds[fd[c].gi]>>, 1)
          ELSE /\ fd' = [fd EXCEPT ![c].gi = @ + 1, ![c].mx = @ + 1,
                                   ![c].looked =
                                       Looked(fd[c], fd[c].slug \o <<GuessTlds[fd[c].gi]>>,
                                              FALSE)]
               /\ UNCHANGED domainCache
    /\ UNCHANGED <<fdLog, otherThanDomain>>

\* Lines 159-162: nothing found, the null is cached.
FdNotFound(c) ==
    /\ fd[c].pc = "guess"
    /\ fd[c].gi > Len(GuessTlds)
    /\ FdSaveAndReturn(c, NoDomain, 0)
    /\ UNCHANGED <<fdLog, otherThanDomain>>

\* The caller has the result; the call is logged.
FdReturn(c) ==
    /\ fd[c].pc = "done"
    /\ fdLog' = Append(fdLog, [slug |-> fd[c].slug, force |-> fd[c].force,
                               q |-> fd[c].q, mx |-> fd[c].mx,
                               result |-> fd[c].result])
    /\ fd' = [fd EXCEPT ![c] = FdIdle]
    /\ UNCHANGED <<domainCache, otherThanDomain>>

(***************************************************************************)
(* engine/email_pattern.py: infer_pattern                                  *)
(***************************************************************************)

\* Bounds of the pattern inference's model: the calls a behaviour makes and
\* the length of the email list a call is given.
MaxIpCalls == 2

MaxEmails == 2

\* str.split(sep): the pieces between the separators, empty pieces kept; cur
\* is the piece read so far.
RECURSIVE SplitOn(_, _, _)
SplitOn(s, sep, cur) ==
    IF s = <<>> THEN <<cur>>
    ELSE IF Head(s) = sep THEN <<cur>> \o SplitOn(Tail(s), sep, <<>>)
    ELSE SplitOn(Tail(s), sep, Append(cur, Head(s)))

\* c in s
Contains(s, c) == \E i \in 1..Len(s) : s[i] = c

\* _guess_pattern_for_email: the rules the structure of a local part allows.
_guess_pattern_for_email(local) ==
    LET patterns ==
            IF Contains(local, ".")
            THEN LET parts == SplitOn(local, ".", <<>>)
                 IN  IF Len(parts) = 2
                     THEN IF Len(parts[1]) = 1 THEN <<"p.nom">>
                          ELSE IF Len(parts[2]) = 1 THEN <<>>
                          ELSE <<"prenom.nom", "nom.prenom">>
                     ELSE <<>>
            ELSE IF Contains(local, "_")
            THEN IF Len(SplitOn(local, "_", <<>>)) = 2 THEN <<"prenom_nom">> ELSE <<>>
            ELSE IF Len(local) <= 1 THEN <<>>
            ELSE IF Len(local) = 2 THEN <<"pnom">>
            ELSE IF Len(local) <= 4 THEN <<"pnom", "nom", "prenom">>
            ELSE <<"prenomnom", "pnom">>
    IN  IF patterns # <<>> THEN patterns ELSE <<"prenomnom">>

\* pattern_votes is a Counter: its keys in insertion order, with their counts.
\* VoteAdd is pattern_votes[p] += k.
RECURSIVE VoteAdd(_, _, _)
VoteAdd(votes, p, k) ==
    IF votes = <<>> THEN <<[p |-> p, n |-> k]>>
    ELSE IF Head(votes).p = p THEN <<[p |-> p, n |-> Head(votes).n + k]>> \o Tail(votes)
    ELSE <<Head(votes)>> \o VoteAdd(Tail(votes), p, k)

\* for g in guesses: pattern_votes[g] += k
RECURSIVE VoteAll(_, _, _)
VoteAll(votes, guesses, k) ==
    IF guesses = <<>> THEN votes
    ELSE VoteAll(VoteAdd(votes, Head(guesses), k), Tail(guesses), k)

\* pattern_votes.most_common(1)[0]: the first key, in insertion order, with
\* the greatest count.
RECURSIVE VoteBest(_)
VoteBest(votes) ==
    IF Len(votes) = 1 THEN votes[1]
    ELSE LET rest == VoteBest(Tail(votes))
         IN  IF votes[1].n >= rest.n THEN votes[1] ELSE rest

\* sum(pattern_votes.values())
RECURSIVE VoteTotal(_)
VoteTotal(votes) == IF votes = <<>> THEN 0 ELSE Head(votes).n + VoteTotal(Tail(votes))

\* Line 148: the emails that end with "@" + domain.
DomainEmails(emails, domain) ==
    SelectSeq(emails, LAMBDA e : Len(e) >= 2 /\ e[Len(e)] = domain)

\* Lines 153-157: the known names with a first and a last name, normalised.
\* known_names is a sequence of <<first, last>>; None is the empty sequence.
NormNames(known_names) ==
    LET usable == SelectSeq(known_names, LAMBDA nm : nm[1] # <<>> /\ nm[2] # <<>>)
    IN  [i \in 1..Len(usable) |->
            <<normalize_name_part(usable[i][1]), normalize_name_part(usable[i][2])>>]

\* Lines 171-177: the rules that build local from (f, l).
Matched(f, l, local) == SelectSeq(PATTERN_DEFS, LAMBDA p : PatternFunc(p, f, l) = local)

\* Lines 168-181: the rules matched by the first name pair that matches any;
\* the empty sequence stands for exact_guesses = None.
RECURSIVE ExactGuesses(_, _)
ExactGuesses(local, norm_names) ==
    IF norm_names = <<>> THEN <<>>
    ELSE LET m == Matched(Head(norm_names)[1], Head(norm_names)[2], local)
         IN  IF m # <<>> THEN m ELSE ExactGuesses(local, Tail(norm_names))

\* Lines 164-202, one iteration: the votes of one email added to the tally.
VoteEmail(acc, email, norm_names) ==
    LET local == email[1]
        exact_guesses == ExactGuesses(local, norm_names)
        guesses == _guess_pattern_for_email(local)
    IN  IF exact_guesses # <<>>
        THEN IF Len(exact_guesses) = 1
             THEN [votes |-> VoteAll(acc.votes, exact_guesses, 5),
                   exact |-> acc.exact + 1, strong |-> acc.strong + 1]
             ELSE [votes |-> VoteAll(acc.votes, exact_guesses, 3),
                   exact |-> acc.exact + 1, strong |-> acc.strong]
        ELSE IF Len(guesses) = 1
             THEN [votes |-> VoteAll(acc.votes, guesses, 3),
                   exact |-> acc.exact, strong |-> acc.strong + 1]
             ELSE [votes |-> VoteAll(acc.votes, guesses, IF Len(guesses) = 2 THEN 2 ELSE 1),
                   exact |-> acc.exact, strong |-> acc.strong]

\* Lines 160-202: the loop over the domain's emails.
RECURSIVE CountVotes(_, _, _)
CountVotes(acc, domain_emails, norm_names) ==
    IF domain_emails = <<>> THEN acc
    ELSE CountVotes(VoteEmail(acc, Head(domain_emails), norm_names),
                    Tail(domain_emails), norm_names)

\* round(x, 2) at an exact tie (x = h.5 hundredths before the bonuses are
\* added) follows the binary value CPython computes at line 229, which lies
\* just above or just below the tie.  Each entry is <<email bonus, exact
\* bonus, strong bonus, prior bonus, H>>: with these bonuses, in hundredths,
\* the tie is rounded up exactly when 45 * best \div total is in H.
RoundUpAtTie ==
    {
     <<12, 0, 0, 0, {1, 4, 7, 8, 10, 13, 14, 15, 17, 19, 21, 25, 26, 27, 30,
               32, 33, 34, 38, 39, 40, 41}>>,
     <<12, 0, 0, 10, {0, 1, 3, 4, 5, 6, 7, 8, 9, 10, 15, 16, 17, 18, 19, 21,
               28, 29, 30, 31, 32, 33, 34, 41}>>,
     <<12, 0, 10, 0, {0, 1, 3, 4, 5, 6, 7, 8, 9, 10, 15, 16, 17, 18, 19, 21,
               28, 29, 30, 31, 32, 33, 34, 41}>>,
     <<12, 0, 10, 10, {0, 1, 5, 6, 7, 8, 9, 10, 18, 19, 21, 31, 32, 33, 34}>>,
     <<12, 0, 15, 0, {0, 1, 4, 10, 11, 12, 13, 14, 15, 17, 23, 24, 25, 26,
               27, 30, 36, 37, 38, 39, 40, 41}>>,
     <<12, 0, 15, 10, {0, 1, 2, 3, 4, 13, 14, 15, 17, 26, 27, 30, 38, 39, 40,
               41}>>,
     <<12, 20, 0, 0, {0, 1, 5, 6, 7, 8, 9, 10, 12, 13, 14, 15, 17, 18, 19,
               21, 31, 32, 33, 34, 35, 36, 37, 38, 39, 40, 41}>>,
     <<12, 20, 0, 10, {0, 1, 8, 9, 10, 11, 12, 13, 14, 15, 17, 21, 33, 34,
               35, 36, 37, 38, 39, 40, 41}>>,
     <<12, 20, 10, 0, {0, 1, 8, 9, 10, 11, 12, 13, 14, 15, 17, 21, 33, 34,
               35, 36, 37, 38, 39, 40, 41}>>,
     <<12, 20, 10, 10, {0, 1, 11, 12, 13, 14, 15, 17, 35, 36, 37, 38, 39, 40,
               41}>>,
     <<12, 20, 15, 0, {3, 4, 5, 6, 7, 8, 9, 10, 16, 17, 18, 19, 21, 28, 29,
               30, 31, 32, 33, 34, 35, 36, 37, 38, 39, 40, 41}>>,
     <<12, 20, 15, 10, {6, 7, 8, 9, 10, 18, 19, 21, 30, 31, 32, 33, 34, 35,
               36, 37}>>,
     <<12, 30, 0, 0, {8, 9, 10, 21, 22, 23, 24, 25, 26, 27, 30, 33, 34}>>,
     <<12, 30, 0, 10, {0, 1, 23, 24, 25, 26, 27, 30}>>,
     <<12, 30, 10, 0, {0, 1, 23, 24, 25, 26, 27, 30}>>,
     <<12, 30, 10, 10, {1, 25, 26, 27, 30}>>,
     <<12, 30, 15, 0, {6, 7, 8, 9, 10, 18, 19, 20, 21, 22, 23, 24, 25, 26,
               27, 30, 31, 32, 33, 34}>>,
     <<12, 30, 15, 10, {8, 9, 10, 20, 21, 22, 23, 24, 25, 26, 27}>>,
     <<20, 0, 0, 0, {0, 1, 2, 3, 4, 5, 6, 7, 8, 9, 10, 11, 12, 13, 14, 17,
               18, 19, 20, 21, 22, 23, 24, 25, 26, 27, 30, 31, 32, 33, 34,
               43, 44}>>,
     <<20, 0, 0, 10, {0, 1, 2, 3, 4, 7, 8, 9, 10, 11, 12, 13, 14, 20, 21, 22,
               23, 24, 25, 26, 27, 30, 33, 34}>>,
     <<20, 0, 10, 0, {0, 1, 2, 3, 4, 7, 8, 9, 10, 11, 12, 13, 14, 20, 21, 22,
               23, 24, 25, 26, 27, 30, 33, 34}>>,
     <<20, 0, 10, 10, {0, 1, 2, 3, 4, 10, 11, 12, 13, 14, 23, 24, 25, 26, 27,
               30}>>,
     <<20, 0, 15, 0, {2, 3, 4, 5, 6, 7, 8, 9, 10, 15, 16, 17, 18, 19, 20, 21,
               22, 23, 28, 29, 30, 31, 32, 33, 34, 40, 41, 42, 43, 44}>>,
     <<20, 0, 15, 10, {5, 6, 7, 8, 9, 10, 18, 19, 20, 21, 22, 23, 30, 31, 32,
               33, 34, 42, 43, 44}>>,
     <<20, 20, 0, 0, {0, 1, 2, 3, 4, 5, 6, 7, 8, 9, 10, 11, 12, 13, 14, 23,
               24, 25, 26, 27, 28, 29, 30, 31, 32, 33, 34}>>,
     <<20, 20, 0, 10, {0, 1, 2, 3, 4, 5, 6, 7, 8, 9, 10, 13, 14, 25, 26, 27,
               28, 29, 30, 31, 32, 33, 34}>>,
     <<20, 20, 10, 0, {0, 1, 2, 3, 4, 5, 6, 7, 8, 9, 10, 13, 14, 25, 26, 27,
               28, 29, 30, 31, 32, 33, 34}>>,
     <<20, 20, 10, 10, {3, 4, 5, 6, 7, 8, 9, 10, 27, 28, 29, 30, 31, 32, 33,
               34}>>,
     <<20, 20, 15, 0, {0, 1, 2, 3, 4, 8, 9, 10, 11, 12, 13, 14, 20, 21, 22,
               23, 24, 25, 26, 27, 28, 29, 30, 31, 32, 33, 34}>>,
     <<20, 20, 15, 10, {0, 1, 2, 3, 4, 10, 11, 12, 13, 14, 22, 23, 24, 25,
               26, 27, 28, 29}>>,
     <<20, 30, 0, 0, {0, 1, 2, 3, 4, 13, 14, 15, 16, 17, 18, 19, 20, 21, 22,
               23, 25, 26, 27, 30, 37, 38, 39, 40, 41, 42, 43, 44}>>,
     <<20, 30, 0, 10, {3, 4, 15, 16, 17, 18, 19, 20, 21, 22, 23, 27, 30}>>,
     <<20, 30, 10, 0, {3, 4, 15, 16, 17, 18, 19, 20, 21, 22, 23, 27, 30}>>,
     <<20, 30, 10, 10, {17, 18, 19, 20, 21, 22, 23}>>,
     <<20, 30, 15, 0, {0, 1, 2, 3, 4, 10, 11, 12, 13, 14, 15, 16, 17, 18, 19,
               20, 21, 22, 23, 24, 25, 26, 27}>>,
     <<20, 30, 15, 10, {0, 1, 2, 3, 4, 12, 13, 14, 15, 16, 17, 18, 19}>>
    }

TieRoundsUp(h, eb, xb, sb, pb) ==
    \E r \in RoundUpAtTie :
        r[1] = eb /\ r[2] = xb /\ r[3] = sb /\ r[4] = pb /\ h \in r[5]

\* Lines 212-229: round(min(0.95, base + bonuses), 2), in hundredths.
RoundedConfidence(best_count, total_votes, emails_found, exact_matches, strong_matches, best_pattern) ==
    LET total == Max(total_votes, 1)
        email_bonus == Min(20, emails_found * 12)
        exact_bonus == Min(30, exact_matches * 20)
        strong_bonus == Min(15, strong_matches * 10)
        prior_bonus == IF best_pattern = "prenom.nom" THEN 10 ELSE 0
        num == 45 * best_count + (email_bonus + exact_bonus + strong_bonus + prior_bonus) * total
        floor == num \div total
        rounded ==
            IF num >= 95 * total THEN 95
            ELSE IF 2 * (num % total) > total THEN floor + 1
            ELSE IF 2 * (num % total) < total THEN floor
            ELSE IF TieRoundsUp((45 * best_count) \div total, email_bonus, exact_bonus,
                                strong_bonus, prior_bonus)
                 THEN floor + 1 ELSE floor
    IN  rounded

\* A confidence without the floor of line 230.
Confidence_NoFloor(best_count, total_votes, emails_found, exact_matches, strong_matches, best_pattern) ==
    RoundedConfidence(best_count, total_votes, emails_found, exact_matches,
                      strong_matches, best_pattern)

\* Lines 212-230: the confidence, in hundredths, at least 0.35.
Confidence(best_count, total_votes, emails_found, exact_matches, strong_matches, best_pattern) ==
    Max(RoundedConfidence(best_count, total_votes, emails_found, exact_matches,
                          strong_matches, best_pattern), 35)

\* The debug text of a result: a fixed text, or the vote tally with the
\* evidence counts (lines 232-233).
DebugText(text) == [text |-> text, votes |-> <<>>, emails_found |-> 0, exact |-> 0, strong |-> 0]

Inference(pattern, confidence, debug) ==
    [pattern |-> pattern, confidence |-> confidence, debug |-> debug]

NoInference == Inference(None, 0, DebugText(""))

\* Lines 152-233: the result computed from the votes.
InferFromVotes(domain_emails, known_names) ==
    LET acc == CountVotes([votes |-> <<>>, exact |-> 0, strong |-> 0],
                          domain_emails, NormNames(known_names))
        best == VoteBest(acc.votes)
    IN  IF acc.votes = <<>>
        THEN Inference("prenom.nom", 15, DebugText("could not infer"))
        ELSE Inference(best.p,
                       Confidence(best.n, VoteTotal(acc.votes), Len(domain_emails),
                                  acc.exact, acc.strong, best.p),
                       [text |-> "votes", votes |-> acc.votes,
                        emails_found |-> Len(domain_emails),
                        exact |-> acc.exact, strong |-> acc.strong])

EmptyPatternCache == [x \in {} |-> NoInference]

\* An entry that pins the default rule whatever the votes say.
PatternCacheEntry_Default(result) ==
    Inference("prenom.nom", 50, result.debug)

\* Line 237: the entry stored for a result.
PatternCacheEntry(result) ==
    Inference(result.pattern, result.confidence, result.debug)

\* Line 138: the cache short-circuit.
PatternCacheHit(cache, domain, force_refresh) == ~force_refresh /\ domain \in DOMAIN cache

IpDomains == {"d.fr", "e.fr"}

\* The addresses discovery hands over: a.ba, ab.ba, aba and ba at d.fr, a.ba
\* at e.fr.
EmailPool ==
    {<<<<"a", ".", "b", "a">>, "d.fr">>, <<<<"a", "b", ".", "b", "a">>, "d.fr">>,
     <<<<"a", "b", "a">>, "d.fr">>, <<<<"b", "a">>, "d.fr">>,
     <<<<"a", ".", "b", "a">>, "e.fr">>}

EmailLists == UNION {[1..n -> EmailPool] : n \in 0..MaxEmails}

\* The known names a caller passes: none, (A, Ba), or (-, Ba) followed by
\* (Ab, Ba); "-" normalises to the empty string.
KnownNameLists ==
    {<<>>,
     << <<<<"A">>, <<"B", "a">>>> >>,
     << <<<<"-">>, <<"B", "a">>>>, <<<<"A", "b">>, <<"B", "a">>>> >>}

IpCallers == {"c1"}

IpIdle ==
    [pc |-> "idle", domain |-> "", emails |-> <<>>, known_names |-> <<>>,
     force |-> FALSE, cache |-> EmptyPatternCache, branch |-> "",
     result |-> NoInference]

IpCallsStarted == Len(ipLog) + Cardinality({c \in IpCallers : ip[c].pc # "idle"})

\* infer_pattern is called: the cache is loaded and looked up, lines 135-140.
IpCall(c) ==
    /\ ip[c].pc = "idle"
    /\ IpCallsStarted < MaxIpCalls
    /\ \E domain \in IpDomains, emails \in EmailLists,
          known_names \in KnownNameLists, force \in BOOLEAN :
          LET fr == [IpIdle EXCEPT !.domain = domain, !.emails = emails,
                                   !.known_names = known_names, !.force = force,
                                   !.cache = patternCache]
          IN  IF PatternCacheHit(patternCache, domain, force)
              THEN ip' = [ip EXCEPT ![c] = [fr EXCEPT !.pc = "done", !.branch = "cache",
                                                     !.result = patternCache[domain]]]
              ELSE ip' = [ip EXCEPT ![c] = [fr EXCEPT !.pc = "infer"]]
    /\ UNCHANGED <<patternCache, ipLog, otherThanPattern>>

\* Lines 142-150: no email, or none of the domain; the default rule is
\* returned and nothing is written.
IpDefault(c) ==
    /\ ip[c].pc = "infer"
    /\ DomainEmails(ip[c].emails, ip[c].domain) = <<>>
    /\ ip' = [ip EXCEPT ![c].pc = "done", ![c].branch = "default",
                        ![c].result =
                            Inference("prenom.nom", 50,
                                      DebugText(IF ip[c].emails = <<>>
                                                THEN "pattern le plus frequent"
                                                ELSE "aucun email du domaine"))]
    /\ UNCHANGED <<patternCache, ipLog, otherThanPattern>>

\* Lines 152-240: the votes are counted; the result is stored under the
\* domain in the cache loaded at line 135 and the file is rewritten.
IpVote(c) ==
    /\ ip[c].pc = "infer"
    /\ DomainEmails(ip[c].emails, ip[c].domain) # <<>>
    /\ LET result == InferFromVotes(DomainEmails(ip[c].emails, ip[c].domain),
                                    ip[c].known_names)
       IN  IF result.debug.text = "could not infer"
           THEN /\ ip' = [ip EXCEPT ![c].pc = "done", ![c].branch = "noinfer",
                                    ![c].result = result]
                /\ UNCHANGED patternCache
           ELSE /\ patternCache' = CachePut(ip[c].cache, ip[c].domain,
                                            PatternCacheEntry(result))
                /\ ip' = [ip EXCEPT ![c].pc = "done", ![c].branch = "votes",
                                    ![c].result = result,
                                    ![c].cache = CachePut(ip[c].cache, ip[c].domain,
                                                          PatternCacheEntry(result))]
    /\ UNCHANGED <<ipLog, otherThanPattern>>

\* The caller has the result; the call is logged with what the cache file
\* holds for the domain at that moment.
IpReturn(c) ==
    /\ ip[c].pc = "done"
    /\ ipLog' = Append(ipLog, [domain |-> ip[c].domain, force |-> ip[c].force,
                               branch |-> ip[c].branch,
                               pattern |-> ip[c].result.pattern,
                               confidence |-> ip[c].result.confidence,
                               emails |-> ip[c].emails,
                               exact |-> ip[c].result.debug.exact,
                               stored |-> IF ip[c].domain \in DOMAIN patternCache
                                          THEN patternCache[ip[c].domain]
                                          ELSE NoInference])
    /\ ip' = [ip EXCEPT ![c] = IpIdle]
    /\ UNCHANGED <<patternCache, otherThanPattern>>

\* The cache files a run can start from: empty, or holding a result for e.fr.
InitialPatternCaches ==
    {EmptyPatternCache,
     CachePut(EmptyPatternCache, "e.fr", Inference("nom", 60, DebugText("from cache")))}

PatternIdle ==
    /\ patternCache = EmptyPatternCache
    /\ ip = [c \in IpCallers |-> IpIdle]
    /\ ipLog = <<>>

(***************************************************************************)
(* engine/email_pattern.py: generate_email and the structural guess        *)
(***************************************************************************)

\* generate_email: None without a first name, a last name or a domain; the
\* rule's local part at the domain; firstname.lastname for an unknown rule.
generate_email(firstname, lastname, domain, pattern) ==
    LET f == normalize_name_part(firstname)
        l == normalize_name_part(lastname)
    IN  IF f = <<>> \/ l = <<>> \/ domain = "" THEN <<>>
        ELSE IF pattern \in PatternNames THEN <<PatternFunc(pattern, f, l), domain>>
        ELSE <<f \o <<".">> \o l, domain>>

\* The first names a prospect has: one letter, typical, hyphenated.
GeFirstNames == {<<"A">>, <<"E", "m", "m", "a">>, <<"A", "b", "-", "B", "o">>}

\* The last names: one letter, typical, hyphenated.
GeLastNames == {<<"B">>, <<"B", "o", "s", "c">>, <<"S", "a", "-", "B", "a">>}

GeIdle ==
    [pc |-> "idle", firstname |-> <<>>, lastname |-> <<>>, pattern |-> "",
     email |-> <<>>, guesses |-> <<>>]

\* generate_email(first, last, "d.fr", R) for one of the nine rules.
GeGenerate ==
    /\ ge.pc = "idle"
    /\ \E firstname \in GeFirstNames, lastname \in GeLastNames, pattern \in PatternNames :
          ge' = [GeIdle EXCEPT !.pc = "generated", !.firstname = firstname,
                               !.lastname = lastname, !.pattern = pattern,
                               !.email = generate_email(firstname, lastname, "d.fr", pattern)]
    /\ UNCHANGED otherThanGuess

\* _guess_pattern_for_email on the local part of the generated address.
GeGuess ==
    /\ ge.pc = "generated"
    /\ ge' = [ge EXCEPT !.pc = "guessed",
                        !.guesses = _guess_pattern_for_email(ge.email[1])]
    /\ UNCHANGED otherThanGuess

\* The next pair is tried.
GeReturn ==
    /\ ge.pc = "guessed"
    /\ ge' = GeIdle
    /\ UNCHANGED otherThanGuess

GuessIdle == ge = GeIdle

(***************************************************************************)
(* engine/task_runner.py: run_email_search and its worker thread           *)
(*                                                                         *)
(* A worker is a thread started by run_email_search.  Its steps are the    *)
(* statements of _email_search_worker between two accesses to what the     *)
(* threads share: the progress file, the suggestions table, the domain     *)
(* cache.  The rows the worker reads are sqlite3.Row objects               *)
(* (db.get_connection sets row_factory), which have no get method: the     *)
(* p.get(...) of line 160 raises AttributeError for the first prospect of  *)
(* every group whose domain was found, and the handler of line 223         *)
(* catches it.  Lines 162-206 (infer_pattern, find_best_email, the FOUND   *)
(* suggestions) are therefore reached by no run and have no action here.   *)
(***************************************************************************)

\* Bound of the task runner's model: the invocations of run_email_search a
\* behaviour makes.
MaxRuns == 2

\* The threads that can exist at the same moment.
Workers == {"t1", "t2"}

\* A row of the prospects table; the import stores
\* normalize_company(company) as its company_key.
Prospect(id, company) ==
    [id |-> id, company |-> company, company_key |-> normalize_company(company)]

\* The prospects table, ordered by id: two spellings of one company, and a
\* second company.
Prospects ==
    <<Prospect(1, <<"A", "c", "m", "e", " ", "S", "A", "S">>),
      Prospect(2, <<"a", "c", "m", "e">>),
      Prospect(3, <<"B", "o">>)>>

ProspectIds == 1..Len(Prospects)

CompanyKey(id) == Prospects[id].company_key

\* The cache key find_domain computes from each prospect's company.
ProspectSlug == [id \in ProspectIds |-> company_to_slug(Prospects[id].company)]

CompanyKeys == {CompanyKey(id) : id \in ProspectIds}

\* The values of max_prospects the page passes.
MaxProspectsChoices == {0, 2}

NoResults == [total |-> 0, found |-> 0, not_found |-> 0, set |-> FALSE]

\* _default_progress; started and finished tell whether started_at and
\* finished_at hold a timestamp.
_default_progress ==
    [running |-> FALSE, current |-> 0, total |-> 0, message |-> "",
     started |-> FALSE, finished |-> FALSE, error |-> "", results |-> NoResults]

\* A terminal record whose running flag is left as it was.
Finished_StillRunning(p) == [p EXCEPT !.finished = TRUE]

\* Lines 109-110, 210-212 and 225-227: the run is marked inactive and
\* finished.
Finished(p) == [p EXCEPT !.running = FALSE, !.finished = TRUE]

\* is_running: the running flag of the progress file.
is_running == progress.running

\* A row of email_suggestions.
Suggestion(id, email, confidence, status, notes) ==
    [prospect_id |-> id, email |-> email, confidence |-> confidence,
     status |-> status, notes |-> notes]

\* A NOT_FOUND row that carries a confidence.
NotFoundRow_Scored(id) == Suggestion(id, NoEmail, 50, "NOT_FOUND", "Domaine non trouve")

\* Lines 138-141: the row written for a prospect whose domain was not found.
NotFoundRow(id) == Suggestion(id, NoEmail, 0, "NOT_FOUND", "Domaine non trouve")

\* The rows of a table for one prospect.
RowsOf(table, id) == {i \in 1..Len(table) : table[i].prospect_id = id}

\* upsert_email_suggestion after its SELECT: UPDATE ... WHERE prospect_id
\* when the SELECT found a row, INSERT otherwise.
UpsertWrite(table, existing, row) ==
    IF existing
    THEN [i \in 1..Len(table) |->
             IF table[i].prospect_id = row.prospect_id THEN row ELSE table[i]]
    ELSE Append(table, row)

\* get_all_prospects_for_find / get_prospects_without_suggestion: the ids in
\* id order, cut at limit when limit is not 0.
RECURSIVE SelectIds(_, _, _, _)
SelectIds(table, force_refresh, limit, from) ==
    IF from > Len(Prospects) THEN <<>>
    ELSE IF force_refresh \/ RowsOf(table, from) = {}
         THEN <<from>> \o SelectIds(table, force_refresh, limit, from + 1)
         ELSE SelectIds(table, force_refresh, limit, from + 1)

FetchProspects(table, force_refresh, limit) ==
    LET ids == SelectIds(table, force_refresh, limit, 1)
    IN  IF limit > 0 /\ Len(ids) > limit THEN SubSeq(ids, 1, limit) ELSE ids

\* Lines 116-121: company_groups, a dict in insertion order.
RECURSIVE GroupAdd(_, _)
GroupAdd(groups, id) ==
    IF groups = <<>> THEN <<[ck |-> CompanyKey(id), ids |-> <<id>>]>>
    ELSE IF Head(groups).ck = CompanyKey(id)
         THEN <<[Head(groups) EXCEPT !.ids = Append(@, id)]>> \o Tail(groups)
         ELSE <<Head(groups)>> \o GroupAdd(Tail(groups), id)

RECURSIVE GroupBy(_, _)
GroupBy(groups, ids) ==
    IF ids = <<>> THEN groups ELSE GroupBy(GroupAdd(groups, Head(ids)), Tail(ids))

\* What a fresh resolution of find_domain can give for a slug.
FreshDomains(slug) == {NoDomain, slug \o <<".fr">>}

NoCalls == [ck \in CompanyKeys |-> 0]

WorkerIdle ==
    [pc |-> "idle", max_prospects |-> 0, force_refresh |-> FALSE,
     progress |-> _default_progress, groups |-> <<>>, gi |-> 0, pi |-> 0,
     existing |-> FALSE, processed |-> 0, found_count |-> 0, not_found_count |-> 0,
     total |-> 0, domain |-> NoDomain, hunter |-> FALSE, found_emails |-> 0,
     pending |-> <<>>, error |-> "",
     \* History of the run: the calls made per company key, the keys whose
     \* domain was not found and was found, the find_best_email calls per
     \* prospect, the progress records written, what ended the run.
     domainCalls |-> NoCalls, hunterCalls |-> NoCalls, discoverCalls |-> NoCalls,
     inferCalls |-> NoCalls, verifyCalls |-> [id \in ProspectIds |-> 0],
     nullKeys |-> {}, foundKeys |-> {}, terminalWrites |-> 0, lateWrites |-> 0,
     path |-> "", fault |-> FALSE,
     \* The prospects the run has written a suggestion for, those whose
     \* suggestion it has committed, and the group it was at when an
     \* exception was raised (0: none, or before the first group).
     written |-> {}, committed |-> {}, failedAt |-> 0]

Active(x) == w[x].pc \notin {"idle", "ended"}

\* The frame of a thread that has ended: its local variables are gone, the
\* progress record it wrote last and the history of its run are kept.
Ended(frame, path) ==
    [frame EXCEPT !.pc = "ended", !.path = path, !.terminalWrites = @ + 1,
                  !.gi = 0, !.pi = 0, !.existing = FALSE, !.domain = NoDomain,
                  !.hunter = FALSE, !.found_emails = 0, !.pending = <<>>]

\* The group the loop of line 127 is at.
Group(x) == w[x].groups[w[x].gi]

\* The table the worker's connection sees: its own uncommitted writes when
\* it holds the write lock, the committed table otherwise.
View(x) == IF dbLock = x THEN w[x].pending ELSE es

\* _write_progress(progress) by worker x: the file and the thread's dict hold
\* record afterwards.
WriteProgress(x, record, frame) ==
    /\ progress' = record
    /\ w' = [w EXCEPT ![x] = [frame EXCEPT !.progress = record,
                                          !.lateWrites = @ + (IF w[x].terminalWrites > 0
                                                              THEN 1 ELSE 0)]]

\* An exception propagates to the handler of line 223.  fault tells whether
\* the environment raised it (the database).
Raise(x, text, fault) ==
    w' = [w EXCEPT ![x].pc = "except", ![x].error = text,
                   ![x].fault = @ \/ fault, ![x].failedAt = w[x].gi]

\* The thread objects are interchangeable: a new thread takes the first free
\* frame.
WorkerOrder(x) == IF x = "t1" THEN 1 ELSE 2

FreeWorkers == {x \in Workers : ~Active(x)}

\* run_email_search, lines 62-72: rejected when the progress file says a
\* task is running, a new thread otherwise.
RunEmailSearch ==
    /\ runs < MaxRuns
    /\ runs' = runs + 1
    /\ IF is_running
       THEN UNCHANGED w
       ELSE \E max_prospects \in MaxProspectsChoices, force_refresh \in BOOLEAN :
               /\ FreeWorkers # {}
               /\ LET x == CHOOSE y \in FreeWorkers : \A z \in FreeWorkers : WorkerOrder(y) <= WorkerOrder(z) IN
                  w' = [w EXCEPT ![x] = [WorkerIdle EXCEPT !.pc = "start",
                                             !.max_prospects = max_prospects,
                                             !.force_refresh = force_refresh]]
    /\ UNCHANGED <<progress, es, dbLock, domainCache, otherThanRun>>

\* clear_progress, which the page offers once a run has finished.
ClearProgress ==
    /\ progress.finished /\ ~progress.running
    /\ progress' = _default_progress
    /\ UNCHANGED <<w, es, dbLock, runs, domainCache, otherThanRun>>

\* Lines 83-88: the first progress record, running = True.
WStart(x) ==
    /\ w[x].pc = "start"
    /\ WriteProgress(x, [_default_progress EXCEPT !.running = TRUE, !.started = TRUE,
                                                  !.message = "Demarrage..."],
                     [w[x] EXCEPT !.pc = "fetch"])
    /\ UNCHANGED <<es, dbLock, runs, domainCache, otherThanRun>>

\* Lines 91-121: the connection, the selection of the prospects, the groups.
WFetch(x) ==
    /\ w[x].pc = "fetch"
    /\ \/ Raise(x, "OperationalError", TRUE)
       \/ LET ids == FetchProspects(es, w[x].force_refresh, w[x].max_prospects)
          IN  w' = [w EXCEPT ![x].total = Len(ids),
                             ![x].progress.total = Len(ids),
                             ![x].groups = GroupBy(<<>>, ids),
                             ![x].gi = 1,
                             ![x].pc = IF Len(ids) = 0 THEN "empty" ELSE "group"]
    /\ UNCHANGED <<progress, es, dbLock, runs, domainCache, otherThanRun>>

\* Lines 107-113: nothing to process, the terminal record.
WEmpty(x) ==
    /\ w[x].pc = "empty"
    /\ WriteProgress(x, [Finished(w[x].progress) EXCEPT !.message = "Aucun prospect a traiter."],
                     Ended(w[x], "empty"))
    /\ UNCHANGED <<es, dbLock, runs, domainCache, otherThanRun>>

\* Lines 127-131: the next group, announced in the progress file.
WGroup(x) ==
    /\ w[x].pc = "group"
    /\ w[x].gi <= Len(w[x].groups)
    /\ WriteProgress(x, [w[x].progress EXCEPT !.current = w[x].processed,
                                              !.message = "Traitement"],
                     [w[x] EXCEPT !.pc = "domain"])
    /\ UNCHANGED <<es, dbLock, runs, domainCache, otherThanRun>>

\* A loop that goes on to the provider search whether or not a domain was
\* found.
AfterDomain_NoCheck(domain) == "hunter"

\* Lines 136 and 147-150: without a domain the group gets its NOT_FOUND rows
\* and the loop continues; with a domain the provider search comes next.
AfterDomain(domain) == IF domain = NoDomain THEN "nf_select" ELSE "hunter"

\* Line 134: find_domain for the company of the group's first prospect, with
\* its cache lookup and its cache write.
WFindDomain(x) ==
    /\ w[x].pc = "domain"
    /\ LET ck == Group(x).ck
           slug == ProspectSlug[Group(x).ids[1]]
           hit == DomainCacheHit(domainCache, slug, w[x].force_refresh)
       IN  \E fresh \in FreshDomains(slug) :
              LET domain == IF slug = <<>> THEN NoDomain
                            ELSE IF hit THEN domainCache[slug] ELSE fresh
              IN  /\ domainCache' = IF slug = <<>> \/ hit THEN domainCache
                                    ELSE CachePut(domainCache, slug, fresh)
                  /\ w' = [w EXCEPT ![x].domain = domain,
                                    ![x].domainCalls[ck] = @ + 1,
                                    ![x].pi = 1,
                                    ![x].nullKeys = IF domain = NoDomain THEN @ \cup {ck} ELSE @,
                                    ![x].foundKeys = IF domain # NoDomain THEN @ \cup {ck} ELSE @,
                                    ![x].pc = AfterDomain(domain)]
    /\ UNCHANGED <<progress, es, dbLock, runs, otherThanRun>>

\* Line 138, the SELECT of upsert_email_suggestion for the next prospect of
\* the group.
WNotFoundSelect(x) ==
    /\ w[x].pc = "nf_select"
    /\ w' = [w EXCEPT ![x].existing = RowsOf(View(x), Group(x).ids[w[x].pi]) # {},
                      ![x].pc = "nf_write"]
    /\ UNCHANGED <<progress, es, dbLock, runs, domainCache, otherThanRun>>

\* Lines 138-143, the UPDATE or INSERT of the upsert: it takes the write
\* lock, or raises (database is locked after the busy timeout, or another
\* database error).
WNotFoundWrite(x) ==
    /\ w[x].pc = "nf_write"
    /\ \/ /\ Raise(x, "OperationalError", TRUE)
          /\ UNCHANGED dbLock
       \/ /\ dbLock \in {"free", x}
          /\ dbLock' = x
          /\ w' = [w EXCEPT ![x].pending = UpsertWrite(View(x), w[x].existing,
                                                       NotFoundRow(Group(x).ids[w[x].pi])),
                            ![x].written = @ \cup {Group(x).ids[w[x].pi]},
                            ![x].processed = @ + 1,
                            ![x].not_found_count = @ + 1,
                            ![x].pi = @ + 1,
                            ![x].pc = IF w[x].pi = Len(Group(x).ids)
                                      THEN "nf_commit" ELSE "nf_select"]
    /\ UNCHANGED <<progress, es, runs, domainCache, otherThanRun>>

\* A commit that leaves the stored table as it was.
CommitGroup_Deferred(table, pending) == table

\* conn.commit(): the connection's pending rows become the stored table.
CommitGroup(table, pending) == pending

\* Line 144: the group's rows are committed.
WNotFoundCommit(x) ==
    /\ w[x].pc = "nf_commit"
    /\ \/ /\ Raise(x, "OperationalError", TRUE)
          /\ UNCHANGED <<es, dbLock>>
       \/ /\ es' = CommitGroup(es, w[x].pending)
          /\ dbLock' = "free"
          /\ w' = [w EXCEPT ![x].pending = <<>>, ![x].pc = "nf_progress",
                            ![x].committed = @ \cup {Group(x).ids[i] : i \in 1..Len(Group(x).ids)}]
    /\ UNCHANGED <<progress, runs, domainCache, otherThanRun>>

\* Lines 145-147: the progress record, then the next group.
WNotFoundProgress(x) ==
    /\ w[x].pc = "nf_progress"
    /\ WriteProgress(x, [w[x].progress EXCEPT !.current = w[x].processed],
                     [w[x] EXCEPT !.pc = "group", !.gi = @ + 1])
    /\ UNCHANGED <<es, dbLock, runs, domainCache, otherThanRun>>

\* Lines 150-151: one provider search for the domain.
WHunter(x) ==
    /\ w[x].pc = "hunter"
    /\ \E key \in BOOLEAN, reply \in HunterSearchReplies :
          w' = [w EXCEPT ![x].hunter = hunter_domain_search(key, reply).ok,
                         ![x].hunterCalls[Group(x).ck] = @ + 1,
                         ![x].pc = "discover"]
    /\ UNCHANGED <<progress, es, dbLock, runs, domainCache, otherThanRun>>

\* Line 154: one web discovery for the domain; found_emails is the number of
\* addresses it returns.
WDiscover(x) ==
    /\ w[x].pc = "discover"
    /\ \E n \in 0..1 :
          w' = [w EXCEPT ![x].found_emails = n,
                         ![x].discoverCalls[Group(x).ck] = @ + 1,
                         ![x].pc = "names"]
    /\ UNCHANGED <<progress, es, dbLock, runs, domainCache, otherThanRun>>

\* Lines 157-161: p.get on a sqlite3.Row raises AttributeError.
WKnownNames(x) ==
    /\ w[x].pc = "names"
    /\ Raise(x, "'sqlite3.Row' object has no attribute 'get'", FALSE)
    /\ UNCHANGED <<progress, es, dbLock, runs, domainCache, otherThanRun>>

\* Lines 208-219: every group is done, the terminal record with the results.
WFinish(x) ==
    /\ w[x].pc = "group"
    /\ w[x].gi > Len(w[x].groups)
    /\ WriteProgress(x, [Finished(w[x].progress) EXCEPT
                             !.current = w[x].total,
                             !.message = "Termine",
                             !.results = [total |-> w[x].total,
                                          found |-> w[x].found_count,
                                          not_found |-> w[x].not_found_count,
                                          set |-> TRUE]],
                     Ended(w[x], "completed"))
    /\ UNCHANGED <<es, dbLock, runs, domainCache, otherThanRun>>

\* Lines 223-229: the handler writes the terminal record with the error
\* text.  The thread ends: its connection is dropped, which rolls back what
\* it had not committed and frees the write lock.
WExcept(x) ==
    /\ w[x].pc = "except"
    /\ WriteProgress(x, [Finished(w[x].progress) EXCEPT !.error = w[x].error,
                                                        !.message = "Erreur"],
                     Ended(w[x], "error"))
    /\ dbLock' = IF dbLock = x THEN "free" ELSE dbLock
    /\ UNCHANGED <<es, runs, domainCache, otherThanRun>>

\* One step of thread x.
WorkerStep(x) ==
    \/ WStart(x)
    \/ WFetch(x)
    \/ WEmpty(x)
    \/ WGroup(x)
    \/ WFindDomain(x)
    \/ WNotFoundSelect(x)
    \/ WNotFoundWrite(x)
    \/ WNotFoundCommit(x)
    \/ WNotFoundProgress(x)
    \/ WHunter(x)
    \/ WDiscover(x)
    \/ WKnownNames(x)
    \/ WFinish(x)
    \/ WExcept(x)

\* The suggestions a run can start from: none, or one entered by hand for
\* prospect 1.
InitialStores ==
    {<<>>, <<Suggestion(1, <<<<"a">>, "d.fr">>, 100, "FOUND", "manual")>>}

RunIdle ==
    /\ progress = _default_progress
    /\ w = [x \in Workers |-> WorkerIdle]
    /\ es = <<>>
    /\ dbLock = "free"
    /\ runs = 0

(***************************************************************************)
(* engine/db.py: upsert_email_suggestion and its callers                   *)
(*                                                                         *)
(* Each caller has its own connection (db.get_connection) and its own      *)
(* thread: the pipeline's worker, the manual entry of the Email Finder     *)
(* page, the import of prospects that come with an email.  The SELECT of   *)
(* line 138 runs outside any transaction; the UPDATE or INSERT opens the   *)
(* transaction that the caller's commit ends.  The table has no UNIQUE     *)
(* constraint on prospect_id (SCHEMA, lines 33-43).                        *)
(***************************************************************************)

\* Bound of the upserts' model: the upserts a behaviour starts.
MaxUpserts == 3

UpCallers == {"pipeline", "manual", "import"}

\* pages/1_Email_Finder, lines 528-531: the row of a manual entry.
ManualRow(id) == Suggestion(id, <<<<"a">>, "d.fr">>, 100, "MANUAL", "Saisie manuelle")

\* pages/2_Campagne_Email, lines 236-240: the row of a prospect imported
\* with its email.
ImportedRow(id) ==
    Suggestion(id, <<<<"b">>, "d.fr">>, 100, "IMPORTED", "Importe directement avec email")

\* The row each caller passes to upsert_email_suggestion.
UpRow(c, id) ==
    CASE c = "pipeline" -> NotFoundRow(id)
      [] c = "manual"   -> ManualRow(id)
      [] c = "import"   -> ImportedRow(id)

\* The prospect the import creates in the transaction of its upsert.
ImportedProspect == 3

\* The prospects a caller can write for: the import writes for the prospect
\* it has just inserted; the others for the prospects they can read, the
\* imported one once its import is committed.  The manual entry calls the
\* upsert only when its own SELECT (lines 518-521) found no row.
UpTargets(c) ==
    CASE c = "import"   -> {id \in {ImportedProspect} : RowsOf(es, id) = {}}
      [] c = "pipeline" -> {id \in ProspectIds :
                               id = ImportedProspect => RowsOf(es, id) # {}}
      [] c = "manual"   -> {id \in ProspectIds \ {ImportedProspect} : RowsOf(es, id) = {}}

UpIdle == [pc |-> "idle", id |-> 0, existing |-> FALSE, pending |-> <<>>]

UpsertsStarted == Len(upLog) + Cardinality({c \in UpCallers : up[c].pc # "idle"})

\* A caller reaches its call of upsert_email_suggestion.
UpCall(c) ==
    /\ up[c].pc = "idle"
    /\ UpsertsStarted < MaxUpserts
    /\ \E id \in UpTargets(c) :
          up' = [up EXCEPT ![c] = [UpIdle EXCEPT !.pc = "select", !.id = id]]
    /\ UNCHANGED <<es, dbLock, upLog, otherThanUpsert>>

\* Lines 138-140: the SELECT, on the committed table.
UpSelect(c) ==
    /\ up[c].pc = "select"
    /\ up' = [up EXCEPT ![c].existing = RowsOf(es, up[c].id) # {},
                        ![c].pc = "write"]
    /\ UNCHANGED <<es, dbLock, upLog, otherThanUpsert>>

\* Lines 142-156: the UPDATE when the SELECT found a row, the INSERT
\* otherwise; the statement takes the write lock.
UpWrite(c) ==
    /\ up[c].pc = "write"
    /\ dbLock = "free"
    /\ dbLock' = c
    /\ up' = [up EXCEPT ![c].pending = UpsertWrite(es, up[c].existing, UpRow(c, up[c].id)),
                        ![c].pc = "commit"]
    /\ UNCHANGED <<es, upLog, otherThanUpsert>>

\* The statement finds the database locked for longer than the busy timeout:
\* OperationalError, nothing is written.
UpLocked(c) ==
    /\ up[c].pc = "write"
    /\ dbLock # "free"
    /\ up' = [up EXCEPT ![c] = UpIdle]
    /\ UNCHANGED <<es, dbLock, upLog, otherThanUpsert>>

\* The caller's conn.commit().
UpCommit(c) ==
    /\ up[c].pc = "commit"
    /\ es' = up[c].pending
    /\ dbLock' = "free"
    /\ upLog' = Append(upLog, UpRow(c, up[c].id))
    /\ up' = [up EXCEPT ![c] = UpIdle]
    /\ UNCHANGED otherThanUpsert

UpsertIdle ==
    /\ up = [c \in UpCallers |-> UpIdle]
    /\ upLog = <<>>

(***************************************************************************)
(* engine/outbox.py: build_outbox                                          *)
(*                                                                         *)
(* In this component the email of a suggestion is the text stored in the   *)
(* suggested_email column, a sequence of characters (empty for NULL and    *)
(* for ''), because the build trims, lowercases and pattern-matches it.    *)
(* The writers of the column strip the text they store; the import and     *)
(* the manual entry keep its case and only require an '@' in it.            *)
(* The company, firstname and lastname columns of an outbox row are stood  *)
(* for by the id of the prospect they are copied from.                     *)
(***************************************************************************)

\* Bounds of the build's model: the rows a behaviour inserts into messages,
\* and the builds it runs.
MaxMessages == 2

MaxBuilds == 1

UpperCase == <<"A", "B", "C", "D", "E", "F", "G", "H", "I", "J", "K", "L", "M",
               "N", "O", "P", "Q", "R", "S", "T", "U", "V", "W", "X", "Y", "Z">>

LowerCase == <<"a", "b", "c", "d", "e", "f", "g", "h", "i", "j", "k", "l", "m",
               "n", "o", "p", "q", "r", "s", "t", "u", "v", "w", "x", "y", "z">>

Letters == {UpperCase[i] : i \in 1..26} \cup {LowerCase[i] : i \in 1..26}

Digits == {"0", "1", "2", "3", "4", "5", "6", "7", "8", "9"}

\* str.lower() on one character.
Lower(c) ==
    IF \E i \in 1..26 : UpperCase[i] = c
    THEN LowerCase[CHOOSE i \in 1..26 : UpperCase[i] = c]
    ELSE c

\* str.lower().
LowerText(t) == [i \in 1..Len(t) |-> Lower(t[i])]

\* str.strip(): the text between its first and its last non-blank character.
Strip(t) ==
    LET inked == {i \in 1..Len(t) : t[i] # " "}
    IN IF inked = {} THEN <<>>
       ELSE SubSeq(t, CHOOSE i \in inked : \A j \in inked : i <= j,
                      CHOOSE i \in inked : \A j \in inked : i >= j)

\* The character classes of EMAIL_RE (line 13).
LocalPartChars == Letters \cup Digits \cup {".", "_", "%", "+", "-"}

DomainPartChars == Letters \cup Digits \cup {".", "-"}

AllIn(t, a, b, chars) == \A i \in a..b : t[i] \in chars

\* Lines 16-19: _is_valid_email, EMAIL_RE matched on the stripped text: a
\* local part, one '@', a domain part, a dot, two letters or more.
_is_valid_email(email) ==
    /\ email # <<>>
    /\ LET t == Strip(email)
       IN \E at \in 2..Len(t) :
             /\ t[at] = "@"
             /\ AllIn(t, 1, at - 1, LocalPartChars)
             /\ \E dot \in (at + 2)..(Len(t) - 2) :
                   /\ t[dot] = "."
                   /\ AllIn(t, at + 1, dot - 1, DomainPartChars)
                   /\ AllIn(t, dot + 1, Len(t), Letters)

\* Line 59: (s["suggested_email"] or "").strip().lower().
NormalizedEmail(email) == LowerText(Strip(email))

\* A subject or a body that str.strip() empties.
BlankTexts == {"", " "}

\* A row of messages; its id is its position in the table.
Message(company_key, subject, body_text) ==
    [company_key |-> company_key, subject |-> subject, body_text |-> body_text]

\* The subjects and bodies the imports store.
MessageTexts ==
    {[subject |-> "s1", body_text |-> "b1"],
     [subject |-> "s2", body_text |-> "b2"],
     [subject |-> " ", body_text |-> ""]}

NoMessage == [subject |-> "", body_text |-> "", found |-> FALSE]

\* The index in which a later row of a key replaces the earlier one.
RECURSIVE IndexMessages_LastWins(_, _)
IndexMessages_LastWins(rows, index) ==
    IF rows = <<>> THEN index
    ELSE IndexMessages_LastWins(Tail(rows),
             CachePut(index, Head(rows).company_key,
                      [subject |-> Head(rows).subject,
                       body_text |-> Head(rows).body_text, found |-> TRUE]))

\* Lines 45-53: messages_by_key, filled from the rows in id order; a key
\* that is already indexed is left alone.
RECURSIVE IndexMessages(_, _)
IndexMessages(rows, index) ==
    IF rows = <<>> THEN index
    ELSE IndexMessages(Tail(rows),
             IF Head(rows).company_key \in DOMAIN index THEN index
             ELSE CachePut(index, Head(rows).company_key,
                           [subject |-> Head(rows).subject,
                            body_text |-> Head(rows).body_text, found |-> TRUE]))

\* Line 83: messages_by_key.get(company_key).
MessageFor(index, key) == IF key \in DOMAIN index THEN index[key] ELSE NoMessage

\* Every order of the rows.
SortedOrders_Any(table) == Permutations(1..Len(table))

\* Line 40: ORDER BY es.confidence_score DESC; the order of the rows of one
\* score is whatever the query plan gives.
SortedOrders(table) ==
    {p \in Permutations(1..Len(table)) :
        \A i, j \in 1..Len(table) :
            i < j => table[p[i]].confidence >= table[p[j]].confidence}

\* Lines 34-41: the suggestions joined with their prospects, in one order.
\* suggestion is the position in email_suggestions of the row read.
JoinedRows(table, order) ==
    [i \in 1..Len(table) |->
        [suggested_email |-> table[order[i]].email,
         confidence_score |-> table[order[i]].confidence,
         es_status |-> table[order[i]].status,
         prospect_id |-> table[order[i]].prospect_id,
         company_key |-> CompanyKey(table[order[i]].prospect_id),
         suggestion |-> order[i]]]

\* Lines 76-93: error_parts.
ErrorParts(email, es_status, msg) ==
    (IF email = <<>> \/ es_status = "NOT_FOUND" THEN <<"EMAIL_NOT_FOUND">>
     ELSE IF ~_is_valid_email(email) THEN <<"INVALID_EMAIL">>
     ELSE <<>>)
    \o (IF ~msg.found THEN <<"MESSAGE_NOT_FOUND">> ELSE <<>>)
    \o (IF msg.found /\ msg.subject \in BlankTexts THEN <<"EMPTY_SUBJECT">> ELSE <<>>)
    \o (IF msg.found /\ msg.body_text \in BlankTexts THEN <<"EMPTY_BODY">> ELSE <<>>)

\* Lines 95-115: the row insert_outbox writes.  suggestion records which
\* suggestion the row was built from.
OutboxRow(id, s, email, msg) ==
    [id |-> id, prospect |-> s.prospect_id, company_key |-> s.company_key,
     email |-> email, subject |-> msg.subject, body_text |-> msg.body_text,
     status |-> IF ErrorParts(email, s.es_status, msg) = <<>> THEN "READY" ELSE "ERROR",
     error_message |-> ErrorParts(email, s.es_status, msg),
     suggestion |-> s.suggestion]

\* Line 55.
NoBuildStats == [ready |-> 0, error |-> 0, skipped_duplicates |-> 0]

\* seq is the AUTOINCREMENT counter of the outbox table, read is the number
\* of message rows line 44 fetched, pending the outbox of the open
\* transaction.
ObIdle ==
    [pc |-> "idle", builds |-> 0, seq |-> 0, suggestions |-> <<>>,
     messages_by_key |-> EmptyCache, read |-> 0, i |-> 0, seen_emails |-> {},
     stats |-> NoBuildStats, pending |-> <<>>]

\* db.insert_message, from the import of the messages file.
InsertMessage ==
    /\ Len(messages) < MaxMessages
    /\ \E key \in CompanyKeys, t \in MessageTexts :
          messages' = Append(messages, Message(key, t.subject, t.body_text))
    /\ UNCHANGED <<outbox, ob, otherThanOutbox>>

\* Line 31: clear_outbox, in the transaction line 125 commits.
ObClear ==
    /\ ob.pc = "idle"
    /\ ob.builds < MaxBuilds
    /\ ob' = [ob EXCEPT !.pc = "load", !.builds = @ + 1, !.pending = <<>>]
    /\ UNCHANGED <<messages, outbox, otherThanOutbox>>

\* Lines 34-56: the suggestions in the order of the query, the index of the
\* messages, the empty stats and seen_emails.
ObLoad ==
    /\ ob.pc = "load"
    /\ \E order \in SortedOrders(es) :
          ob' = [ob EXCEPT !.pc = "loop",
                           !.suggestions = JoinedRows(es, order),
                           !.messages_by_key = IndexMessages(messages, EmptyCache),
                           !.read = Len(messages),
                           !.i = 1,
                           !.seen_emails = {},
                           !.stats = NoBuildStats]
    /\ UNCHANGED <<messages, outbox, otherThanOutbox>>

\* Lines 58-123: one suggestion: dropped when its email was seen, inserted
\* as READY or ERROR otherwise.
ObStep ==
    /\ ob.pc = "loop"
    /\ ob.i <= Len(ob.suggestions)
    /\ LET s == ob.suggestions[ob.i]
           email == NormalizedEmail(s.suggested_email)
           msg == MessageFor(ob.messages_by_key, s.company_key)
           row == OutboxRow(ob.seq + 1, s, email, msg)
       IN IF email # <<>> /\ email \in ob.seen_emails
          THEN ob' = [ob EXCEPT !.i = @ + 1,
                                !.stats.skipped_duplicates = @ + 1]
          ELSE ob' = [ob EXCEPT !.i = @ + 1,
                                !.seq = @ + 1,
                                !.pending = Append(@, row),
                                !.seen_emails = IF email # <<>> THEN @ \cup {email} ELSE @,
                                !.stats.ready = IF row.status = "READY" THEN @ + 1 ELSE @,
                                !.stats.error = IF row.status = "ERROR" THEN @ + 1 ELSE @]
    /\ UNCHANGED <<messages, outbox, otherThanOutbox>>

\* Lines 125-128: the commit, and the stats returned.
ObCommit ==
    /\ ob.pc = "loop"
    /\ ob.i > Len(ob.suggestions)
    /\ outbox' = ob.pending
    /\ ob' = [ob EXCEPT !.pc = "idle"]
    /\ UNCHANGED <<messages, otherThanOutbox>>

\* A build has returned and no other is running.
Built == ob.pc = "idle" /\ ob.builds > 0

OutboxIdle ==
    /\ messages = <<>>
    /\ outbox = <<>>
    /\ ob = ObIdle

\* The stored emails of the build's model: an address, the same address in
\* upper case, a text with an '@' that is no address, and no email.
EmailPlain == <<"a", "@", "d", ".", "f", "r">>

EmailUpper == <<"A", "@", "D", ".", "f", "r">>

EmailInvalid == <<"b", "@", "d">>

StoredEmails == {EmailPlain, EmailUpper, EmailInvalid, <<>>}

\* The scores of the build's model, in hundredths.
StoredScores == {50, 80}

\* A suggestion as its writers store it: NOT_FOUND without an email.
StoredSuggestion(id, email, confidence) ==
    Suggestion(id, email, confidence, IF email = <<>> THEN "NOT_FOUND" ELSE "FOUND", "")

\* The suggestion tables a build can start from: one row for each prospect;
\* the third has the lower score and, if any, the address in upper case.
InitialSuggestionTables ==
    {<<StoredSuggestion(1, e1, c1), StoredSuggestion(2, e2, c2), StoredSuggestion(3, e3, 50)>> :
        <<e1, e2, e3, c1, c2>> \in
            StoredEmails \X StoredEmails \X {EmailUpper, <<>>}
                \X StoredScores \X StoredScores}

(***************************************************************************)
(* engine/mailer.py: send_ready_emails, and pages/4_Envoi: _launch_send    *)
(*                                                                         *)
(* The rows get_outbox returns are sqlite3.Row objects, which have no get  *)
(* method: row.get("company", "") of line 200 raises AttributeError once   *)
(* the first email of a run has been sent and its status committed.  The   *)
(* exception leaves send_ready_emails; the worker of _launch_send catches  *)
(* it (lines 78-84).  The progress callback and the delay loop (lines      *)
(* 207-219) are therefore reached by no run and have no action here.       *)
(***************************************************************************)

\* The values of SEND_MAX_PER_RUN the settings allow.
MaxPerRunChoices == {1, 2}

\* The values of the max_emails argument: None (the empty tuple) or a number.
MaxEmailsChoices == {<<>>, <<0>>, <<1>>, <<2>>}

\* An outbox row a send run can find.
QueuedRow(id, status) ==
    [id |-> id, prospect |-> id, company_key |-> CompanyKey(id),
     email |-> <<LowerCase[id], "@", "d", ".", "f", "r">>,
     subject |-> "s1", body_text |-> "b1", status |-> status,
     error_message |-> IF status = "ERROR" THEN <<"MESSAGE_NOT_FOUND">> ELSE <<>>,
     suggestion |-> id]

\* The outboxes a send run can start from: a row for each prospect, READY
\* or ERROR.
InitialOutboxes ==
    {[id \in ProspectIds |-> QueuedRow(id, st[id])] :
        st \in [ProspectIds -> {"READY", "ERROR"}]}

OutboxIds == {outbox[k].id : k \in 1..Len(outbox)}

\* db.get_outbox(conn, status_filter="READY"): the rows in id order.
RECURSIVE ReadyRows(_)
ReadyRows(table) ==
    IF table = <<>> THEN <<>>
    ELSE (IF Head(table).status = "READY" THEN <<Head(table)>> ELSE <<>>)
         \o ReadyRows(Tail(table))

\* Line 136: the rows whose id is in id_set.
RECURSIVE RowsIn(_, _)
RowsIn(rows, id_set) ==
    IF rows = <<>> THEN <<>>
    ELSE (IF Head(rows).id \in id_set THEN <<Head(rows)>> ELSE <<>>)
         \o RowsIn(Tail(rows), id_set)

\* rows[:n] for n >= 0.
Slice(rows, n) == SubSeq(rows, 1, Min(n, Len(rows)))

\* Line 123: eff_max.
EffMax(max_emails, max_per_run) ==
    IF max_emails # <<>> THEN max_emails[1] ELSE max_per_run

\* Lines 132-139: rows_to_send; ids_given tells that outbox_ids is not None.
RowsToSend(table, ids_given, outbox_ids, eff_max) ==
    IF ids_given
    THEN RowsIn(ReadyRows(table), outbox_ids)
    ELSE Slice(ReadyRows(table), eff_max)

\* Lines 197-203: update_outbox_status.
SetStatus(table, id, status, error_message) ==
    [k \in 1..Len(table) |->
        IF table[k].id = id
        THEN [table[k] EXCEPT !.status = status, !.error_message = error_message]
        ELSE table[k]]

\* Lines 143-144.
SendStats(total) == [sent |-> 0, errors |-> 0, skipped |-> 0, total |-> total]

\* has_flag: a stop flag was passed; stop: it is set.  attempted counts the
\* calls of _send_single_email, atStop is its value when the flag was set.
\* outcome is "returned" or "raised"; reported is what the caller records.
\* delivered holds the addresses the SMTP server accepted a message for,
\* oldest first, over all the runs.
SndIdle ==
    [pc |-> "idle", eff_max |-> 0, ids_given |-> FALSE, outbox_ids |-> {},
     has_flag |-> FALSE,
     stop |-> FALSE, rows |-> <<>>, i |-> 0, stats |-> SendStats(0),
     connected |-> FALSE, attempted |-> 0, atStop |-> 0, outcome |-> "",
     error |-> "", reported |-> SendStats(0), delivered |-> <<>>]

\* Lines 69-77 of _launch_send, and lines 56-57 of pages/4_Send_Emails: the
\* caller records the stats returned.
Returned(frame, error) ==
    [frame EXCEPT !.pc = "done", !.outcome = "returned", !.error = error,
                  !.reported = frame.stats]

\* Lines 95-148: the call, up to the rows it will send.  The caller passes a
\* stop flag (_launch_send) or none, a list of ids or none, and max_emails.
SendCallWith(flags, given, limits) ==
    /\ snd.pc = "idle"
    /\ \E credentials \in BOOLEAN, max_per_run \in MaxPerRunChoices,
          max_emails \in limits, has_flag \in flags,
          ids_given \in given :
             \E outbox_ids \in IF ids_given THEN SUBSET OutboxIds ELSE {{}} :
                LET eff_max == EffMax(max_emails, max_per_run)
                    rows == RowsToSend(outbox, ids_given, outbox_ids, eff_max)
                    frame == [SndIdle EXCEPT !.eff_max = eff_max,
                                             !.ids_given = ids_given,
                                             !.outbox_ids = outbox_ids,
                                             !.has_flag = has_flag,
                                             !.rows = rows,
                                             !.stats = SendStats(Len(rows)),
                                             !.delivered = snd.delivered]
                IN snd' = IF ~credentials
                          THEN Returned([frame EXCEPT !.rows = <<>>,
                                                      !.stats = SendStats(0)],
                                        "SMTP credentials not configured.")
                          ELSE IF rows = <<>> THEN Returned(frame, "")
                          ELSE [frame EXCEPT !.pc = "connect"]
    /\ UNCHANGED <<outbox, otherThanSend>>

SendCall == SendCallWith(BOOLEAN, BOOLEAN, MaxEmailsChoices)

\* Lines 150-155: the connection and the login succeed.
SendConnect ==
    /\ snd.pc = "connect"
    /\ snd' = [snd EXCEPT !.pc = "check", !.connected = TRUE]
    /\ UNCHANGED <<outbox, otherThanSend>>

\* Lines 156-161: they fail.
SendConnectFail ==
    /\ snd.pc = "connect"
    /\ snd' = Returned(snd, "SMTP connection failed")
    /\ UNCHANGED <<outbox, otherThanSend>>

\* Lines 150-152 of pages/4_Envoi: the stop button sets the flag of the run
\* in progress.
SetStop ==
    /\ snd.has_flag
    /\ ~snd.stop
    /\ snd.pc \notin {"idle", "done"}
    /\ snd' = [snd EXCEPT !.stop = TRUE, !.atStop = snd.attempted]
    /\ UNCHANGED <<outbox, otherThanSend>>

\* Lines 163-178: the head of the loop: the rows are exhausted, or the flag
\* is set and the rest is counted as skipped, or the send of row i starts.
SendCheck ==
    /\ snd.pc = "check"
    /\ snd' = IF snd.i >= Len(snd.rows) THEN [snd EXCEPT !.pc = "quit"]
              ELSE IF snd.has_flag /\ snd.stop
              THEN [snd EXCEPT !.stats.skipped = Len(snd.rows) - snd.i,
                               !.pc = "quit"]
              ELSE [snd EXCEPT !.pc = "sending", !.attempted = @ + 1]
    /\ UNCHANGED <<outbox, otherThanSend>>

\* Lines 176-191: _send_single_email succeeds or fails; the status of the
\* row is updated and committed.
SendSingle ==
    /\ snd.pc = "sending"
    /\ \E success \in BOOLEAN :
          /\ outbox' = SetStatus(outbox, snd.rows[snd.i + 1].id,
                                 IF success THEN "SENT" ELSE "ERROR",
                                 IF success THEN <<>> ELSE <<"SMTP error">>)
          /\ snd' = [snd EXCEPT !.stats.sent = IF success THEN @ + 1 ELSE @,
                                !.stats.errors = IF success THEN @ ELSE @ + 1,
                                !.delivered =
                                    IF success THEN Append(@, snd.rows[snd.i + 1].email)
                                    ELSE @,
                                !.pc = "details"]
    /\ UNCHANGED otherThanSend

\* Lines 198-205: row.get raises AttributeError; the worker of _launch_send
\* records a finished run with no email sent (lines 78-84).
SendDetails ==
    /\ snd.pc = "details"
    /\ snd' = [snd EXCEPT !.pc = "done", !.outcome = "raised",
                          !.error = "AttributeError",
                          !.reported = SendStats(0)]
    /\ UNCHANGED <<outbox, otherThanSend>>

\* Lines 221-230: the loop is left; the stats are returned.
SendQuit ==
    /\ snd.pc = "quit"
    /\ snd' = Returned(snd, "")
    /\ UNCHANGED <<outbox, otherThanSend>>

\* The run is over; the page can start another one.
SendAgain ==
    /\ snd.pc = "done"
    /\ snd' = [SndIdle EXCEPT !.delivered = snd.delivered]
    /\ UNCHANGED <<outbox, otherThanSend>>

SendIdle == snd = SndIdle

(***************************************************************************)
(* engine/bounce_tracker.py: check_bounces                                 *)
(*                                                                         *)
(* mail.search(None, ...) of line 201 and mail.fetch(msg_id, ...) of line  *)
(* 224 are the plain SEARCH and FETCH commands of imaplib (not             *)
(* mail.uid(...)): the identifiers they exchange are message sequence      *)
(* numbers, the positions of the messages in the folder, which the server  *)
(* renumbers when a message is removed.  The folder is therefore a         *)
(* sequence, and the identifier of a message is its position.  uid is the  *)
(* UID the server gave the message on arrival; the code never reads it.    *)
(***************************************************************************)

\* The messages the folder holds at most, the UIDs the server hands out,
\* and the check_bounces runs of one behaviour.
MaxMail == 3

MaxUid == 3

MaxChecks == 2

\* A message as check_bounces reads it.  from_daemon: BOUNCE_FROM_RE matches
\* From; subject_match: BOUNCE_SUBJECT_RE matches Subject; delivery_status:
\* Content-Type names delivery-status; final_recipient: the address of the
\* Final-Recipient line as written, or the empty text; diag_code: the code
\* of the Diagnostic-Code line; recent: the message is in the SINCE window.
PlainMail ==
    [from_daemon |-> FALSE, subject_match |-> FALSE, delivery_status |-> FALSE,
     final_recipient |-> <<>>, diag_code |-> "", recent |-> TRUE]

OldMail == [PlainMail EXCEPT !.recent = FALSE]

UnknownUserDsn ==
    [from_daemon |-> TRUE, subject_match |-> TRUE, delivery_status |-> TRUE,
     final_recipient |-> <<"A", "@", "d", ".", "f", "r">>,
     diag_code |-> "5.1.1", recent |-> TRUE]

MailboxFullDsn ==
    [from_daemon |-> FALSE, subject_match |-> TRUE, delivery_status |-> FALSE,
     final_recipient |-> <<"b", "@", "d", ".", "f", "r">>,
     diag_code |-> "5.2.2", recent |-> TRUE]

NoRecipientDsn ==
    [from_daemon |-> TRUE, subject_match |-> FALSE, delivery_status |-> FALSE,
     final_recipient |-> <<>>, diag_code |-> "", recent |-> TRUE]

MailKinds == {PlainMail, OldMail, UnknownUserDsn, MailboxFullDsn, NoRecipientDsn}

\* Lines 78-90.
_is_bounce(msg) == msg.from_daemon \/ msg.subject_match \/ msg.delivery_status

\* Lines 93-161: the recipient in lower case (lines 119, 131, 154), or
\* nothing, and the diagnostic code.
_extract_bounce_info(msg) ==
    [recipient |-> LowerText(msg.final_recipient), diag_code |-> msg.diag_code]

\* Lines 199-211: the sequence numbers of the messages of the window.
RECURSIVE SearchSince(_, _)
SearchSince(folder, n) ==
    IF n > Len(folder) THEN <<>>
    ELSE (IF folder[n].mail.recent THEN <<n>> ELSE <<>>) \o SearchSince(folder, n + 1)

\* db.update_outbox_status_by_email (db.py, lines 206-212).
SetStatusByEmail(table, email, status, error_message) ==
    [k \in 1..Len(table) |->
        IF table[k].email = email /\ table[k].status \in {"SENT", "READY"}
        THEN [table[k] EXCEPT !.status = status, !.error_message = error_message]
        ELSE table[k]]

\* Lines 175-181.
BounceStats == [bounced |-> 0, invalid |-> 0, already_seen |-> 0, processed |-> 0]

\* classified holds the UIDs of the messages the completed runs have
\* classified, current those of the run in progress, again those a run
\* classified although a completed run had classified them before.
BtIdle ==
    [pc |-> "idle", checks |-> 0, seen |-> {}, msg_ids |-> <<>>, i |-> 0,
     stats |-> BounceStats, error |-> "",
     classified |-> {}, current |-> {}, again |-> {}]

\* A message of one of kinds arrives: the server appends it and gives it
\* the next UID.
MailArrivesFrom(kinds) ==
    /\ Len(mailbox.folder) < MaxMail
    /\ mailbox.uidnext <= MaxUid
    /\ \E mail \in kinds :
          mailbox' = [folder |-> Append(mailbox.folder,
                                        [uid |-> mailbox.uidnext, mail |-> mail]),
                      uidnext |-> mailbox.uidnext + 1]
    /\ UNCHANGED <<seenFile, bt, outbox, otherThanBounce>>

MailArrives == bt.pc = "idle" /\ MailArrivesFrom(MailKinds)

\* The owner of the mailbox deletes a message: the messages after it move
\* up by one sequence number.
MailExpunged ==
    /\ bt.pc = "idle"
    /\ \E k \in 1..Len(mailbox.folder) :
          mailbox' = [mailbox EXCEPT
                        !.folder = SubSeq(@, 1, k - 1) \o SubSeq(@, k + 1, Len(@))]
    /\ UNCHANGED <<seenFile, bt, outbox, otherThanBounce>>

\* Lines 174-212: the stats, the seen set, the connection and the search.
BtCall ==
    /\ bt.pc = "idle"
    /\ bt.checks < MaxChecks
    /\ bt' = [bt EXCEPT !.pc = "loop", !.checks = @ + 1, !.seen = seenFile,
                        !.msg_ids = SearchSince(mailbox.folder, 1), !.i = 0,
                        !.stats = BounceStats, !.error = "", !.current = {}]
    /\ UNCHANGED <<mailbox, seenFile, outbox, otherThanBounce>>

\* Lines 183-185, 193-196, 202-209: no credentials, no connection or no
\* search result: the stats are returned with an error.
BtError ==
    /\ bt.pc = "idle"
    /\ bt.checks < MaxChecks
    /\ \E error \in {"IMAP credentials not configured.", "IMAP connection failed",
                     "IMAP search failed."} :
          bt' = [bt EXCEPT !.checks = @ + 1, !.stats = BounceStats, !.error = error,
                           !.msg_ids = <<>>, !.i = 0, !.current = {}]
    /\ UNCHANGED <<mailbox, seenFile, outbox, otherThanBounce>>

\* Lines 216-270: one message of the search result: skipped when its
\* identifier is in seen; left for a later run when the fetch fails;
\* recorded when it is no bounce or names no recipient; otherwise the
\* outbox rows of its recipient are updated, and it is recorded.
BtStep ==
    /\ bt.pc = "loop"
    /\ bt.i < Len(bt.msg_ids)
    /\ LET msg_id == bt.msg_ids[bt.i + 1]
           fetched == mailbox.folder[msg_id]
           msg == fetched.mail
           info == _extract_bounce_info(msg)
           new_status == IF info.diag_code = "5.1.1" THEN "INVALID" ELSE "BOUNCED"
           recorded == [bt EXCEPT !.i = @ + 1,
                                  !.seen = @ \cup {msg_id},
                                  !.current = @ \cup {fetched.uid},
                                  !.again = @ \cup ({fetched.uid} \cap bt.classified)]
       IN IF msg_id \in bt.seen
          THEN /\ bt' = [bt EXCEPT !.i = @ + 1, !.stats.already_seen = @ + 1]
               /\ outbox' = outbox
          ELSE \/ /\ bt' = [bt EXCEPT !.i = @ + 1]
                  /\ outbox' = outbox
               \/ IF ~_is_bounce(msg) \/ info.recipient = <<>>
                  THEN /\ bt' = recorded
                       /\ outbox' = outbox
                  ELSE /\ bt' = [recorded EXCEPT
                                   !.stats.invalid =
                                       IF new_status = "INVALID" THEN @ + 1 ELSE @,
                                   !.stats.bounced =
                                       IF new_status = "BOUNCED" THEN @ + 1 ELSE @,
                                   !.stats.processed = @ + 1]
                       /\ outbox' = SetStatusByEmail(outbox, info.recipient, new_status,
                                                     <<"diag", info.diag_code>>)
    /\ UNCHANGED <<mailbox, seenFile, otherThanBounce>>

\* Lines 272-282: the seen set is saved and the stats are returned.
BtSave ==
    /\ bt.pc = "loop"
    /\ bt.i >= Len(bt.msg_ids)
    /\ seenFile' = bt.seen
    /\ bt' = [bt EXCEPT !.pc = "idle", !.classified = @ \cup bt.current]
    /\ UNCHANGED <<mailbox, outbox, otherThanBounce>>

BounceIdle ==
    /\ mailbox = [folder |-> <<>>, uidnext |-> 1]
    /\ seenFile = {}
    /\ bt = BtIdle

(***************************************************************************)
(* engine/web_discovery.py: _crawl_site                                    *)
(***************************************************************************)

\* The internal links a homepage shows at most.
MaxLinks == 21

\* The values of max_pages: none, the default of discover_emails, the
\* number of key pages, and more.
MaxPagesChoices == {0, 15, 34, 36}

\* Lines 101-107.
key_paths ==
    <<"/", "/contact", "/contactez-nous", "/nous-contacter",
      "/equipe", "/team", "/notre-equipe", "/about", "/a-propos",
      "/mentions-legales", "/legal", "/mentions",
      "/qui-sommes-nous", "/about-us",
      "/leadership", "/dirigeants", "/direction">>

\* A URL of the site: with or without "www.", its path, the number its
\* query string carries (0 for none), and for the links of a page the
\* keywords of email_keywords its path contains.
KeyUrl(www, path) == [www |-> www, path |-> path, page |-> 0, kw |-> {}]

\* Lines 109-119: for each key path the URL without and with "www."; no two
\* are equal, so the deduplication keeps them all.
OrderedKeyUrls ==
    [i \in 1..(2 * Len(key_paths)) |->
        KeyUrl(i % 2 = 0, key_paths[(i + 1) \div 2])]

\* Line 131: the URL is a homepage.
IsHomepage(url) == url.path = "/"

\* seq[:n] of Python for any integer n: the first n elements, or all but
\* the last -n.
SliceTo(seq, n) ==
    SubSeq(seq, 1, IF n >= 0 THEN Min(n, Len(seq)) ELSE Max(Len(seq) + n, 0))

\* The internal links of a homepage: the contact page, then numbered
\* pages, the second of them a team page.
PageLink(k) ==
    IF k = 0 THEN KeyUrl(FALSE, "/contact")
    ELSE [www |-> FALSE, path |-> IF k = 2 THEN "/team" ELSE "/news", page |-> k,
          kw |-> IF k = 2 THEN {"team"} ELSE {}]

PageLinkLists == {[i \in 1..n |-> PageLink(i - 1)] : n \in {0, 3, MaxLinks}}

\* Lines 141-147: the links not seen before with their scores, each once.
RECURSIVE ScoredLinks(_, _)
ScoredLinks(links, seen) ==
    IF links = <<>> THEN <<>>
    ELSE IF Head(links) \in seen THEN ScoredLinks(Tail(links), seen)
    ELSE <<[score |-> Cardinality(Head(links).kw), url |-> Head(links)]>>
         \o ScoredLinks(Tail(links), seen \cup {Head(links)})

\* Line 149: the stable sort by decreasing score.
RECURSIVE WithScore(_, _)
WithScore(scored, n) ==
    IF scored = <<>> THEN <<>>
    ELSE (IF Head(scored).score = n THEN <<Head(scored)>> ELSE <<>>)
         \o WithScore(Tail(scored), n)

SortedByScore(scored) == WithScore(scored, 1) \o WithScore(scored, 0)

CrIdle ==
    [pc |-> "idle", max_pages |-> 0, key_pages |-> <<>>, i |-> 0,
     more_links |-> <<>>, follow |-> <<>>, fetched |-> <<>>]

\* Lines 92-125: the call; the key pages phase 1 will fetch.
CrawlCall ==
    /\ cr.pc = "idle"
    /\ \E max_pages \in MaxPagesChoices :
          cr' = [CrIdle EXCEPT !.pc = "phase1", !.max_pages = max_pages,
                               !.key_pages = SliceTo(OrderedKeyUrls, max_pages)]
    /\ UNCHANGED otherThanCrawl

\* Lines 125-134: one key page is fetched; the links of a homepage that
\* was received are collected.
CrawlKeyPage ==
    /\ cr.pc = "phase1"
    /\ cr.i < Len(cr.key_pages)
    /\ LET url == cr.key_pages[cr.i + 1]
       IN \E html \in BOOLEAN :
             \E links \in IF html /\ IsHomepage(url) THEN PageLinkLists ELSE {<<>>} :
                cr' = [cr EXCEPT !.i = @ + 1,
                                 !.fetched = Append(@, url),
                                 !.more_links = @ \o links]
    /\ UNCHANGED otherThanCrawl

\* Lines 136-151: the links are scored and sorted; the slice phase 2 will
\* fetch.
CrawlScore ==
    /\ cr.pc = "phase1"
    /\ cr.i >= Len(cr.key_pages)
    /\ LET seen == {OrderedKeyUrls[k] : k \in 1..Len(OrderedKeyUrls)}
           scored_links == SortedByScore(ScoredLinks(cr.more_links, seen))
           kept == SliceTo(scored_links, cr.max_pages - Len(OrderedKeyUrls))
       IN cr' = [cr EXCEPT !.pc = "phase2", !.i = 0,
                           !.follow = [k \in 1..Len(kept) |-> kept[k].url]]
    /\ UNCHANGED otherThanCrawl

\* Lines 151-156: one discovered link is fetched.
CrawlFollow ==
    /\ cr.pc = "phase2"
    /\ cr.i < Len(cr.follow)
    /\ cr' = [cr EXCEPT !.i = @ + 1, !.fetched = Append(@, cr.follow[cr.i + 1])]
    /\ UNCHANGED otherThanCrawl

\* Line 158.
CrawlReturn ==
    /\ cr.pc = "phase2"
    /\ cr.i >= Len(cr.follow)
    /\ cr' = [cr EXCEPT !.pc = "done"]
    /\ UNCHANGED otherThanCrawl

CrawlIdle == cr = CrIdle

(***************************************************************************)
(* normalize_company applied to a name, and again to its result            *)
(***************************************************************************)

\* Bound of the names: their length.
MaxNameLen == 4

\* The characters of the names: letters of a legal form in both cases, a
\* dot, an ampersand, a space, an accented letter, the trade mark sign.
NameChars == {"a", "S", "s", ".", "&", " ", "é", "(tm)"}

RECURSIVE TextsUpTo(_, _)
TextsUpTo(chars, n) ==
    IF n = 0 THEN {<<>>}
    ELSE LET shorter == TextsUpTo(chars, n - 1)
         IN shorter \cup {Append(t, c) : t \in shorter, c \in chars}

AcmeSAS == <<"A", "c", "m", "e", " ", "S", "A", "S">>

AcmeDotted == <<"A", "C", "M", "E", " ", "S", ".", "A", ".", "S", ".">>

CompanyNames == TextsUpTo(NameChars, MaxNameLen) \cup {AcmeSAS, AcmeDotted}

NzIdle == [pc |-> "idle", name |-> <<>>, key |-> <<>>, again |-> <<>>]

\* The import computes the key of a company.
NzNormalize ==
    /\ nz.pc = "named"
    /\ nz' = [nz EXCEPT !.pc = "once", !.key = normalize_company(nz.name)]
    /\ UNCHANGED otherThanNormalize

\* The key is normalised again.
NzAgain ==
    /\ nz.pc = "once"
    /\ nz' = [nz EXCEPT !.pc = "twice", !.again = normalize_company(nz.key)]
    /\ UNCHANGED otherThanNormalize

NormalizeIdle == nz = NzIdle

\* The cache files a run can start from: empty, or holding a null for acme.
InitialDomainCaches ==
    {EmptyCache, CachePut(EmptyCache, <<"a", "c", "m", "e">>, NoDomain)}

DomainIdle ==
    /\ domainCache = EmptyCache
    /\ fd = [c \in FdCallers |-> FdIdle]
    /\ fdLog = <<>>

InitDomain ==
    /\ domainCache \in InitialDomainCaches
    /\ fd = [c \in FdCallers |-> FdIdle]
    /\ fdLog = <<>>
    /\ fb = FbIdle
    /\ smtp = SmtpIdle
    /\ PatternIdle
    /\ RunIdle
    /\ GuessIdle
    /\ UpsertIdle
    /\ CrawlIdle
    /\ BounceIdle
    /\ NormalizeIdle
    /\ OutboxIdle
    /\ SendIdle

\* One caller: its calls follow one another.
NextDomain ==
    \E c \in {"c1"} :
        \/ FdCall(c)
        \/ FdSearch(c)
        \/ FdPick(c)
        \/ FdGuess(c)
        \/ FdNotFound(c)
        \/ FdReturn(c)

SpecDomain == InitDomain /\ [][NextDomain]_vars

\* What a query returns when callers overlap: nothing, or one link.
RaceResults ==
    {<<>>, <<[www |-> FALSE, host |-> "acme-corp.com"]>>, <<[www |-> FALSE, host |-> "b.io"]>>}

\* Two callers: their calls overlap.
NextDomainRace ==
    \E c \in FdCallers :
        \/ FdCall(c)
        \/ FdSearchFrom(c, RaceResults)
        \/ FdPick(c)
        \/ FdGuess(c)
        \/ FdNotFound(c)
        \/ FdReturn(c)

SpecDomainRace == InitDomain /\ [][NextDomainRace]_vars

InitSmtp ==
    /\ DomainIdle
    /\ fb = FbIdle
    /\ smtp = SmtpIdle
    /\ PatternIdle
    /\ RunIdle
    /\ GuessIdle
    /\ UpsertIdle
    /\ CrawlIdle
    /\ BounceIdle
    /\ NormalizeIdle
    /\ OutboxIdle
    /\ SendIdle

NextSmtp == SmtpCheck \/ SmtpReturn

SpecSmtp == InitSmtp /\ [][NextSmtp]_vars

InitVerify ==
    /\ DomainIdle
    /\ fb = FbIdle
    /\ smtp = SmtpIdle
    /\ PatternIdle
    /\ RunIdle
    /\ GuessIdle
    /\ UpsertIdle
    /\ CrawlIdle
    /\ BounceIdle
    /\ NormalizeIdle
    /\ OutboxIdle
    /\ SendIdle

NextVerify ==
    \/ FbCall
    \/ FbHunterSearch
    \/ FbHunterVerify
    \/ FbCandidates
    \/ FbCatchAll
    \/ FbProbe
    \/ FbInconclusive

SpecVerify == InitVerify /\ [][NextVerify]_vars

InitPattern ==
    /\ patternCache \in InitialPatternCaches
    /\ ip = [c \in IpCallers |-> IpIdle]
    /\ ipLog = <<>>
    /\ DomainIdle
    /\ fb = FbIdle
    /\ smtp = SmtpIdle
    /\ RunIdle
    /\ GuessIdle
    /\ UpsertIdle
    /\ CrawlIdle
    /\ BounceIdle
    /\ NormalizeIdle
    /\ OutboxIdle
    /\ SendIdle

NextPattern ==
    \E c \in IpCallers :
        \/ IpCall(c)
        \/ IpDefault(c)
        \/ IpVote(c)
        \/ IpReturn(c)

SpecPattern == InitPattern /\ [][NextPattern]_vars

Init ==
    /\ progress = _default_progress
    /\ w = [x \in Workers |-> WorkerIdle]
    /\ es \in InitialStores
    /\ dbLock = "free"
    /\ runs = 0
    /\ DomainIdle
    /\ fb = FbIdle
    /\ smtp = SmtpIdle
    /\ PatternIdle
    /\ GuessIdle
    /\ UpsertIdle
    /\ CrawlIdle
    /\ BounceIdle
    /\ NormalizeIdle
    /\ OutboxIdle
    /\ SendIdle

Next ==
    \/ RunEmailSearch
    \/ ClearProgress
    \/ \E x \in Workers : WorkerStep(x)

Spec == Init /\ [][Next]_vars

InitIdle ==
    /\ DomainIdle
    /\ fb = FbIdle
    /\ smtp = SmtpIdle
    /\ PatternIdle
    /\ RunIdle

InitGuess ==
    /\ InitIdle
    /\ ge = GeIdle
    /\ UpsertIdle
    /\ CrawlIdle
    /\ BounceIdle
    /\ NormalizeIdle
    /\ OutboxIdle
    /\ SendIdle

NextGuess == GeGenerate \/ GeGuess \/ GeReturn

SpecGuess == InitGuess /\ [][NextGuess]_vars

InitUpsert ==
    /\ DomainIdle
    /\ fb = FbIdle
    /\ smtp = SmtpIdle
    /\ PatternIdle
    /\ GuessIdle
    /\ progress = _default_progress
    /\ w = [x \in Workers |-> WorkerIdle]
    /\ runs = 0
    /\ es \in InitialStores
    /\ dbLock = "free"
    /\ UpsertIdle
    /\ CrawlIdle
    /\ BounceIdle
    /\ NormalizeIdle
    /\ OutboxIdle
    /\ SendIdle

NextUpsert ==
    \E c \in UpCallers :
        \/ UpCall(c)
        \/ UpSelect(c)
        \/ UpWrite(c)
        \/ UpLocked(c)
        \/ UpCommit(c)

SpecUpsert == InitUpsert /\ [][NextUpsert]_vars

InitOutbox ==
    /\ DomainIdle
    /\ fb = FbIdle
    /\ smtp = SmtpIdle
    /\ PatternIdle
    /\ progress = _default_progress
    /\ w = [x \in Workers |-> WorkerIdle]
    /\ runs = 0
    /\ dbLock = "free"
    /\ es \in InitialSuggestionTables
    /\ GuessIdle
    /\ UpsertIdle
    /\ CrawlIdle
    /\ BounceIdle
    /\ NormalizeIdle
    /\ messages = <<>>
    /\ outbox = <<>>
    /\ ob = ObIdle
    /\ SendIdle

NextOutbox == InsertMessage \/ ObClear \/ ObLoad \/ ObStep \/ ObCommit

SpecOutbox == InitOutbox /\ [][NextOutbox]_vars

InitSend ==
    /\ InitIdle
    /\ GuessIdle
    /\ UpsertIdle
    /\ CrawlIdle
    /\ BounceIdle
    /\ NormalizeIdle
    /\ messages = <<>>
    /\ ob = ObIdle
    /\ outbox \in InitialOutboxes
    /\ snd = SndIdle

NextSend ==
    \/ SendCall
    \/ SendConnect
    \/ SendConnectFail
    \/ SetStop
    \/ SendCheck
    \/ SendSingle
    \/ SendDetails
    \/ SendQuit

SpecSend == InitSend /\ [][NextSend]_vars

\* The outboxes a bounce check can find after a campaign: a row for each
\* prospect, sent or still READY.
CampaignOutboxes ==
    {[id \in ProspectIds |-> QueuedRow(id, st[id])] :
        st \in [ProspectIds -> {"SENT", "READY"}]}

InitBounce ==
    /\ InitIdle
    /\ GuessIdle
    /\ UpsertIdle
    /\ CrawlIdle
    /\ NormalizeIdle
    /\ messages = <<>>
    /\ ob = ObIdle
    /\ outbox \in CampaignOutboxes
    /\ SendIdle
    /\ BounceIdle

NextBounce == MailArrives \/ MailExpunged \/ BtCall \/ BtError \/ BtStep \/ BtSave

SpecBounce == InitBounce /\ [][NextBounce]_vars

InitCrawl ==
    /\ InitIdle
    /\ GuessIdle
    /\ UpsertIdle
    /\ NormalizeIdle
    /\ OutboxIdle
    /\ SendIdle
    /\ BounceIdle
    /\ cr = CrIdle

NextCrawl == CrawlCall \/ CrawlKeyPage \/ CrawlScore \/ CrawlFollow \/ CrawlReturn

SpecCrawl == InitCrawl /\ [][NextCrawl]_vars

\* A campaign: the suggestions of two prospects of one company, the
\* company's message, and the outbox a first build has made of them.
EmailOther == <<"b", "@", "d", ".", "f", "r">>

CampaignSuggestions ==
    <<StoredSuggestion(1, EmailPlain, 80), StoredSuggestion(2, EmailOther, 50)>>

CampaignMessages == <<Message(CompanyKey(1), "s1", "b1")>>

\* outbox.py, lines 58-123, for suggestions with distinct addresses.
BuiltOutbox(table, rows) ==
    LET order == CHOOSE o \in SortedOrders(table) : TRUE
        suggestions == JoinedRows(table, order)
        index == IndexMessages(rows, EmptyCache)
    IN [k \in 1..Len(table) |->
           OutboxRow(k, suggestions[k], NormalizedEmail(suggestions[k].suggested_email),
                     MessageFor(index, suggestions[k].company_key))]

InitCampaign ==
    /\ DomainIdle
    /\ fb = FbIdle
    /\ smtp = SmtpIdle
    /\ PatternIdle
    /\ progress = _default_progress
    /\ w = [x \in Workers |-> WorkerIdle]
    /\ runs = 0
    /\ dbLock = "free"
    /\ es = CampaignSuggestions
    /\ GuessIdle
    /\ UpsertIdle
    /\ NormalizeIdle
    /\ CrawlIdle
    /\ messages = CampaignMessages
    /\ outbox = BuiltOutbox(CampaignSuggestions, CampaignMessages)
    /\ ob = [ObIdle EXCEPT !.seq = Len(CampaignSuggestions)]
    /\ SendIdle
    /\ BounceIdle

\* The outbox is rebuilt, emails are sent (4_Send_Emails: no flag, no ids,
\* no max_emails) and the bounces are checked, each from its page, in any
\* order and at the same time from several sessions.
NextCampaign ==
    \/ ObClear \/ ObLoad \/ ObStep \/ ObCommit
    \/ SendCallWith({FALSE}, {FALSE}, {<<>>})
    \/ SendConnect \/ SendConnectFail \/ SendCheck
    \/ SendSingle \/ SendDetails \/ SendAgain
    \/ MailArrivesFrom({UnknownUserDsn})
    \/ BtCall \/ BtError \/ BtStep \/ BtSave

SpecCampaign == InitCampaign /\ [][NextCampaign]_vars

InitNormalize ==
    /\ InitIdle
    /\ GuessIdle
    /\ UpsertIdle
    /\ CrawlIdle
    /\ BounceIdle
    /\ OutboxIdle
    /\ SendIdle
    /\ nz \in {[NzIdle EXCEPT !.pc = "named", !.name = name] : name \in CompanyNames}

NextNormalize == NzNormalize \/ NzAgain

SpecNormalize == InitNormalize /\ [][NextNormalize]_vars

\* A started thread keeps being scheduled until it ends.
LiveSpec == Init /\ [][Next]_vars /\ \A x \in Workers : WF_vars(WorkerStep(x))

(***************************************************************************)
(* Claims about find_domain (SpecDomain)                                   *)
(***************************************************************************)

\* C3: a call for a company with a non-empty slug has stored its outcome, a
\* domain or the null, under the slug when it returns; a call without
\* forceRefresh that follows a call for the same slug issues no search query
\* and no MX lookup and returns what the earlier call returned; a call with
\* forceRefresh issues the search queries whatever the cache holds.
C3_DomainCache ==
    /\ \A c \in FdCallers :
          (fd[c].pc = "done" /\ fd[c].slug # <<>>) =>
              /\ fd[c].slug \in DOMAIN domainCache
              /\ domainCache[fd[c].slug] = fd[c].result
    /\ \A i \in 2..Len(fdLog) :
          (fdLog[i].slug # <<>> /\ fdLog[i].slug = fdLog[i - 1].slug /\ ~fdLog[i].force) =>
              /\ fdLog[i].q = 0
              /\ fdLog[i].mx = 0
              /\ fdLog[i].result = fdLog[i - 1].result
    /\ \A i \in 1..Len(fdLog) :
          (fdLog[i].slug # <<>> /\ fdLog[i].force) => fdLog[i].q = 2

\* C3's case: a resolution that found nothing after two queries and five MX
\* lookups, then a call for the same slug served the null from the cache
\* without any network attempt.
C3_Witness ==
    /\ Len(fdLog) = 2
    /\ fdLog[1].slug = fdLog[2].slug
    /\ fdLog[1].q = 2 /\ fdLog[1].mx = 5 /\ fdLog[1].result = NoDomain
    /\ ~fdLog[2].force /\ fdLog[2].q = 0 /\ fdLog[2].mx = 0 /\ fdLog[2].result = NoDomain

(***************************************************************************)
(* Claims about find_best_email (SpecVerify)                               *)
(***************************************************************************)

\* The rule a caller expects first: knownPattern when given, else prenom.nom.
FirstPriorityPattern == IF fb.known_pattern # None THEN fb.known_pattern ELSE "prenom.nom"

FbNoProbe == fb.probes = <<>> /\ fb.catchAll = "not_probed"

FbLocalDebugs ==
    {"pas de vérification SMTP", "domaine catch-all (SMTP non fiable)",
     "SMTP vérifié", "SMTP inconcluant", "impossible de générer des candidats"}

\* C5: when the provider returned a pattern and its verification of the address
\* built from that pattern has answered, the call has returned that address with
\* that pattern at 0.95 (deliverable), 0.80 (another verdict but undeliverable)
\* or 0.85 (verification unavailable), and no catch-all or mailbox probe was
\* issued; on undeliverable nothing is returned by that branch and the local
\* branch runs: whatever is returned then comes from the local branch.
C5_ProviderBranch ==
    (fb.hunter.ok /\ fb.verdict # "not_asked") =>
        /\ fb.hunterEmail = <<PatternFunc(fb.hunter.pattern, fb.f, fb.l), fb.domain>>
        /\ fb.verdict # "undeliverable" =>
              /\ fb.pc = "done"
              /\ fb.result.email = fb.hunterEmail
              /\ fb.result.pattern = fb.hunter.pattern
              /\ fb.result.conf = (CASE fb.verdict = "deliverable" -> 95
                                     [] fb.verdict = "unavailable" -> 85
                                     [] OTHER -> 80)
              /\ FbNoProbe
        /\ fb.verdict = "undeliverable" =>
              /\ fb.pc \in {"candidates", "catch_all", "probe", "done"}
              /\ fb.pc = "done" => fb.result.debug \in FbLocalDebugs

\* C5's case: the provider's verdict was neither deliverable nor undeliverable
\* and the call returned at 0.80 without any probe.
C5_Witness ==
    /\ fb.pc = "done" /\ fb.hunter.ok /\ fb.verdict = "risky"
    /\ fb.result.conf = 80 /\ fb.hunter.pattern = "pnom"

\* The number of entries of a probe log that reported invalid.
RECURSIVE CountInvalid(_)
CountInvalid(log) ==
    IF log = <<>> THEN 0
    ELSE (IF Head(log).result = "invalid" THEN 1 ELSE 0) + CountInvalid(Tail(log))

\* C6: the mailbox probes of a call are issued in priority order (knownPattern
\* first when given, the fixed order otherwise, no rule twice), no probe
\* follows one that reported valid, and a probe that reported valid ends the
\* call with that candidate at min(0.95, 0.75 + 0.05 n), n the number of
\* earlier probes of the call that reported invalid.
C6_FirstValidWins ==
    LET n == Len(fb.probes)
    IN  n > 0 =>
          /\ ~fb.skip_smtp /\ fb.catchAll \in {"invalid", "unknown"}
          /\ fb.probes[1].pname = FirstPriorityPattern
          /\ fb.known_pattern = None =>
                \A i \in 1..n : fb.probes[i].pname = DefaultPriority[i]
          /\ \A i, j \in 1..n : i # j => fb.probes[i].pname # fb.probes[j].pname
          /\ \A i \in 1..n :
                fb.probes[i].email = <<PatternFunc(fb.probes[i].pname, fb.f, fb.l), fb.domain>>
          /\ \A i \in 1..(n - 1) : fb.probes[i].result # "valid"
          /\ fb.probes[n].result = "valid" =>
                /\ fb.pc = "done"
                /\ fb.result.email = fb.probes[n].email
                /\ fb.result.pattern = fb.probes[n].pname
                /\ fb.result.conf =
                      Min(95, 75 + 5 * CountInvalid(SubSeq(fb.probes, 1, n - 1)))

\* C6's case: a valid probe after two invalid ones and an unknown one, with a
\* known pattern: confidence 0.85.
C6_Witness ==
    /\ fb.pc = "done" /\ Len(fb.probes) = 4 /\ fb.known_pattern = "nom"
    /\ fb.probes[4].result = "valid"
    /\ CountInvalid(fb.probes) = 2
    /\ fb.result.conf = 85

\* C7: when the probe of the random local part reported valid, the call has
\* returned the first-priority candidate at 0.55 if its rule is prenom.nom and
\* 0.45 otherwise, the debug trail mentions catch-all, and no mailbox probe of
\* a real candidate was issued.
C7_CatchAll ==
    fb.catchAll = "valid" =>
        /\ fb.pc = "done"
        /\ fb.result.pattern = FirstPriorityPattern
        /\ fb.result.email = <<PatternFunc(FirstPriorityPattern, fb.f, fb.l), fb.domain>>
        /\ fb.result.conf = (IF FirstPriorityPattern = "prenom.nom" THEN 55 ELSE 45)
        /\ fb.result.debug = "domaine catch-all (SMTP non fiable)"
        /\ fb.probes = <<>>

\* C7's case: a catch-all domain and a known pattern other than prenom.nom.
C7_Witness ==
    /\ fb.catchAll = "valid" /\ fb.known_pattern = "p.nom"
    /\ fb.result.conf = 45 /\ fb.pc = "done"

(***************************************************************************)
(* Claims about smtp_check_email (SpecSmtp)                                *)
(***************************************************************************)

\* The server answered RCPT TO and no call of the dialogue raised out of it.
Replied(net) ==
    /\ net.mx
    /\ net.fail = "none" \/ (net.fail = "starttls" /\ net.tlsRefused)

\* C8 as claimed: never raises, valid for every 2xx reply, invalid for every
\* 5xx reply, unknown for every other reply and every DNS or transport
\* failure.
C8_Original ==
    smtp.pc = "done" =>
        /\ smtp.result \in {"valid", "invalid", "unknown"}
        /\ (Replied(smtp.net) /\ smtp.net.code \in 200..299) => smtp.result = "valid"
        /\ (Replied(smtp.net) /\ smtp.net.code \in 500..599) => smtp.result = "invalid"
        /\ (~Replied(smtp.net) \/ smtp.net.code \notin (200..299) \cup (500..599))
              => smtp.result = "unknown"

\* C8 as amended: on an address with an "@", the call never raises and returns
\* one of valid, invalid, unknown: valid exactly when the server replied 250,
\* invalid exactly when it replied 550 to 554, unknown for every other reply
\* and for every DNS or transport failure.
C8_Amended ==
    (smtp.pc = "done" /\ Len(smtp.email) >= 2) =>
        /\ smtp.result \in {"valid", "invalid", "unknown"}
        /\ smtp.result = "valid" <=> (Replied(smtp.net) /\ smtp.net.code = 250)
        /\ smtp.result = "invalid" <=> (Replied(smtp.net) /\ smtp.net.code \in 550..554)

\* C8's case: a 2xx reply other than 250 gives unknown.
C8_Witness ==
    /\ smtp.pc = "done" /\ Len(smtp.email) = 2 /\ Replied(smtp.net)
    /\ smtp.net.code = 251 /\ smtp.result = "unknown"

(***************************************************************************)
(* Claims about infer_pattern (SpecPattern)                                *)
(***************************************************************************)

\* C4, as stated: every result a call returns on a cache miss, the default
\* rule included, is stored under the domain when the call returns, and a
\* call without forceRefresh that follows a miss for the same domain returns
\* the same pattern and confidence.
C4_Original ==
    /\ \A c \in IpCallers :
          (ip[c].pc = "done" /\ ip[c].branch # "cache") =>
              /\ ip[c].domain \in DOMAIN patternCache
              /\ patternCache[ip[c].domain].pattern = ip[c].result.pattern
              /\ patternCache[ip[c].domain].confidence = ip[c].result.confidence
    /\ \A i \in 2..Len(ipLog) :
          (/\ ipLog[i].domain = ipLog[i - 1].domain
           /\ ipLog[i - 1].branch # "cache"
           /\ ~ipLog[i].force) =>
              /\ ipLog[i].pattern = ipLog[i - 1].pattern
              /\ ipLog[i].confidence = ipLog[i - 1].confidence

\* C4, amended: a result computed from the votes of the domain's emails is
\* stored under the domain when the call returns, and a call without
\* forceRefresh that follows it for the same domain is served from the cache
\* with the same pattern and confidence, whatever its emails and names; the
\* default result (prenom.nom at 0.50), returned when no email is given or
\* none ends with @domain, is returned without anything being written.
C4_Amended ==
    /\ \A c \in IpCallers :
          (ip[c].pc = "done" /\ ip[c].branch = "votes") =>
              /\ ip[c].domain \in DOMAIN patternCache
              /\ patternCache[ip[c].domain].pattern = ip[c].result.pattern
              /\ patternCache[ip[c].domain].confidence = ip[c].result.confidence
    /\ \A c \in IpCallers :
          (ip[c].pc = "done" /\ ip[c].branch = "default") =>
              /\ ip[c].result.pattern = "prenom.nom"
              /\ ip[c].result.confidence = 50
              /\ patternCache = ip[c].cache
    /\ \A i \in 2..Len(ipLog) :
          (/\ ipLog[i].domain = ipLog[i - 1].domain
           /\ ipLog[i - 1].branch = "votes"
           /\ ~ipLog[i].force) =>
              /\ ipLog[i].branch = "cache"
              /\ ipLog[i].pattern = ipLog[i - 1].pattern
              /\ ipLog[i].confidence = ipLog[i - 1].confidence

\* C4's case: a call that inferred p.nom from the votes, then a call for the
\* same domain without forceRefresh that was served that result from the
\* cache.
C4_Witness ==
    /\ Len(ipLog) = 2
    /\ ipLog[1].branch = "votes" /\ ipLog[1].pattern = "p.nom"
    /\ ipLog[2].domain = ipLog[1].domain /\ ~ipLog[2].force
    /\ ipLog[2].branch = "cache" /\ ipLog[2].pattern = "p.nom"
    /\ ipLog[2].confidence = ipLog[1].confidence

(***************************************************************************)
(* Claims about the task runner (Spec, LiveSpec)                           *)
(***************************************************************************)

\* C1: at most one worker thread is active at any time, whatever the
\* interleaving of the run_email_search invocations: an invocation made
\* while a started worker has not finished starts no second worker.
C1_SingleRun == Cardinality({x \in Workers : Active(x)}) <= 1

\* C2: every worker that starts ends, and it ends having written exactly one
\* terminal progress record, with running = false and a finished timestamp:
\* with the results summary after the last group, with no results for an
\* empty prospect list, with the error text after an exception.  It writes
\* nothing after that record, and when no worker is active the progress file
\* does not say running.
C2_TerminalRecord ==
    /\ \A x \in Workers : Active(x) ~> (w[x].pc = "ended")
    /\ [](\A x \in Workers :
             /\ w[x].terminalWrites <= 1
             /\ w[x].lateWrites = 0
             /\ Active(x) => w[x].terminalWrites = 0
             /\ w[x].pc = "ended" =>
                   /\ w[x].terminalWrites = 1
                   /\ ~w[x].progress.running
                   /\ w[x].progress.finished
                   /\ w[x].path \in {"completed", "empty", "error"}
                   /\ w[x].path = "completed" =>
                         /\ w[x].progress.error = ""
                         /\ w[x].progress.results =
                                [total |-> w[x].total, found |-> w[x].found_count,
                                 not_found |-> w[x].not_found_count, set |-> TRUE]
                   /\ w[x].path = "empty" =>
                         /\ w[x].total = 0
                         /\ w[x].progress.error = ""
                   /\ w[x].path = "error" =>
                         /\ w[x].progress.error # ""
                         /\ w[x].progress.error = w[x].error)
    /\ []((\A x \in Workers : ~Active(x)) => ~progress.running)

\* C2's case: one run ended after its last group with the results of its
\* three prospects, another ended in the exception handler, and the progress
\* file says that nothing is running.
C2_Witness ==
    /\ \E x \in Workers :
          /\ w[x].pc = "ended" /\ w[x].path = "completed"
          /\ w[x].progress.results.set /\ w[x].progress.results.total = 3
    /\ \E x \in Workers :
          /\ w[x].pc = "ended" /\ w[x].path = "error"
          /\ w[x].progress.error # ""
    /\ ~progress.running /\ progress.finished

\* C9: when find_domain gave no domain for a group, every prospect of the
\* group has, once the group is committed, a suggestion NOT_FOUND with no
\* email, confidence 0 and the notes "Domaine non trouve"; no provider
\* search, no web discovery, no pattern inference and no verification is made
\* for the group; and the loop goes on with the next group.
C9_DomainNotFound ==
    \A x \in Workers :
        /\ w[x].pc = "nf_progress" =>
              \A i \in 1..Len(Group(x).ids) :
                  /\ RowsOf(es, Group(x).ids[i]) # {}
                  /\ \A r \in RowsOf(es, Group(x).ids[i]) :
                        /\ es[r].status = "NOT_FOUND"
                        /\ es[r].email = <<>>
                        /\ es[r].confidence = 0
                        /\ es[r].notes = "Domaine non trouve"
        /\ \A ck \in w[x].nullKeys :
              /\ w[x].hunterCalls[ck] = 0
              /\ w[x].discoverCalls[ck] = 0
              /\ w[x].inferCalls[ck] = 0
              /\ \A id \in ProspectIds : CompanyKey(id) = ck => w[x].verifyCalls[id] = 0
        /\ (w[x].pc \in {"group", "domain"} /\ w[x].gi <= Len(w[x].groups)) =>
              \A j \in 1..(w[x].gi - 1) :
                  /\ w[x].groups[j].ck \in w[x].nullKeys
                  /\ w[x].error = ""

\* C9's case: the two prospects of a group whose domain was not found have
\* their NOT_FOUND rows committed, and the run has a next group to go to.
C9_Witness ==
    \E x \in Workers :
        /\ w[x].pc = "nf_progress"
        /\ Len(Group(x).ids) = 2
        /\ w[x].gi < Len(w[x].groups)
        /\ \A i \in 1..2 : RowsOf(es, Group(x).ids[i]) # {}

\* C10: in one run find_domain, discover_emails and infer_pattern are each
\* called at most once per company key, and when a run that met no database
\* error has ended, find_best_email was called exactly once for every
\* prospect of every group whose domain was found.
C10_OncePerKey ==
    \A x \in Workers :
        /\ \A ck \in CompanyKeys :
              /\ w[x].domainCalls[ck] <= 1
              /\ w[x].discoverCalls[ck] <= 1
              /\ w[x].inferCalls[ck] <= 1
        /\ (w[x].pc = "ended" /\ ~w[x].fault) =>
              \A j \in 1..Len(w[x].groups) :
                  w[x].groups[j].ck \in w[x].foundKeys =>
                      \A i \in 1..Len(w[x].groups[j].ids) :
                          w[x].verifyCalls[w[x].groups[j].ids[i]] = 1

(***************************************************************************)
(* Claims about the confidence of infer_pattern (SpecPattern)              *)
(***************************************************************************)

\* C18: a call that is not served from the cache returns a confidence
\* between 0.35 and 0.95 when at least one of its emails ends with @domain,
\* and returns prenom.nom at exactly 0.50 when it is given no email or none
\* that ends with @domain.
C18_ConfidenceRange ==
    \A c \in IpCallers :
        (ip[c].pc = "done" /\ ip[c].branch # "cache") =>
            IF DomainEmails(ip[c].emails, ip[c].domain) # <<>>
            THEN /\ ip[c].result.confidence >= 35
                 /\ ip[c].result.confidence <= 95
            ELSE /\ ip[c].result.confidence = 50
                 /\ ip[c].result.pattern = "prenom.nom"

\* C18's case: after a call that was given no email of its domain and
\* returned the default at 0.50, a call whose single email gives three
\* structural guesses (0.27 before the floor) returns 0.35.
C18_Witness ==
    /\ Len(ipLog) = 1
    /\ ipLog[1].branch = "default" /\ ipLog[1].confidence = 50
    /\ \E c \in IpCallers :
          /\ ip[c].pc = "done" /\ ip[c].branch = "votes"
          /\ Len(DomainEmails(ip[c].emails, ip[c].domain)) = 1
          /\ Len(ip[c].result.debug.votes) = 3
          /\ ip[c].result.confidence = 35

\* C19: of two calls that bypass the cache for the same domain and the same
\* emails, the one whose known names reproduce more of the emails exactly
\* reports a confidence at least as high as the other.
C19_MoreExactNeverLower ==
    \A i, j \in 1..Len(ipLog) :
        (/\ ipLog[i].branch = "votes" /\ ipLog[j].branch = "votes"
         /\ ipLog[i].domain = ipLog[j].domain
         /\ ipLog[i].emails = ipLog[j].emails
         /\ ipLog[j].exact > ipLog[i].exact) =>
            ipLog[j].confidence >= ipLog[i].confidence

(***************************************************************************)
(* Claims about generate_email and the structural guess (SpecGuess)        *)
(***************************************************************************)

\* C20: for each of the nine rules and each pair of names, the structural
\* guess made on the local part of the address generate_email builds with
\* the rule contains the rule.
C20_GuessContainsRule ==
    ge.pc = "guessed" => \E i \in 1..Len(ge.guesses) : ge.guesses[i] = ge.pattern

(***************************************************************************)
(* Claims about the suggestion upserts (SpecUpsert)                        *)
(***************************************************************************)

\* C12: whatever the interleaving of the upserts of the pipeline, the manual
\* entry and the import, the table holds at most one row per prospect, and
\* the row of a prospect carries the values of the last upsert committed for
\* it.
C12_OneRowPerProspect ==
    \A id \in ProspectIds :
        /\ Cardinality(RowsOf(es, id)) <= 1
        /\ \A k \in 1..Len(upLog) :
              (/\ upLog[k].prospect_id = id
               /\ \A j \in (k + 1)..Len(upLog) : upLog[j].prospect_id # id) =>
                  \A r \in RowsOf(es, id) : es[r] = upLog[k]

(***************************************************************************)
(* Claims about the order and the commits of a run (Spec)                  *)
(***************************************************************************)

C13_CommitPerGroup ==
    /\ [][es' # es => \E x \in Workers : w[x].pc = "nf_commit" /\ es' = w[x].pending]_vars
    /\ [](\A x \in Workers :
             /\ \A id \in w[x].committed :
                   /\ RowsOf(es, id) # {}
                   /\ \A r \in RowsOf(es, id) : es[r] = NotFoundRow(id)
             /\ w[x].pc \in {"except", "ended"} =>
                   \A id \in w[x].written \ w[x].committed :
                       /\ w[x].failedAt \in 1..Len(w[x].groups)
                       /\ \E i \in 1..Len(w[x].groups[w[x].failedAt].ids) :
                             w[x].groups[w[x].failedAt].ids[i] = id)

\* C13's case: a run has ended on an exception raised in its second group:
\* the two rows of the first group are stored, the row written for the
\* second group is not.
C13_Witness ==
    \E x \in Workers :
        /\ w[x].pc = "ended" /\ w[x].path = "error"
        /\ w[x].failedAt = 2
        /\ Cardinality(w[x].committed) = 2
        /\ w[x].written \ w[x].committed # {}
        /\ \A id \in w[x].committed : RowsOf(es, id) # {}
        /\ \A id \in w[x].written \ w[x].committed : RowsOf(es, id) = {}

(***************************************************************************)
(* The outbox after a build                                                *)
(***************************************************************************)

\* The entries of the committed outbox.
Entries == {outbox[k] : k \in 1..Len(outbox)}

\* The suggestions whose email, trimmed and lowercased, is the given one.
SuggestionsWith(email) ==
    {j \in 1..Len(es) : NormalizedEmail(es[j].email) = email}

\* C14: after build_outbox at most one entry exists for each non-empty
\* address, compared trimmed and lowercased; no suggestion that carries the
\* address of an entry has a higher confidence_score than the suggestion
\* the entry was built from; and every suggestion without an email has its
\* own entry, the dropped suggestions being the ones the stats count.
C14_OnePerAddress ==
    Built =>
        /\ \A a, b \in Entries :
              (a.email # <<>> /\ NormalizedEmail(a.email) = NormalizedEmail(b.email))
                  => a = b
        /\ \A a \in Entries :
              a.email # <<>> =>
                  /\ a.suggestion \in SuggestionsWith(a.email)
                  /\ \A j \in SuggestionsWith(a.email) :
                        es[j].confidence <= es[a.suggestion].confidence
        /\ \A j \in SuggestionsWith(<<>>) :
              \E a \in Entries : a.suggestion = j /\ a.email = <<>>
        /\ Len(outbox) + ob.stats.skipped_duplicates = Len(es)

\* A build dropped the lower-scored of two suggestions that carry one
\* address in two spellings, and kept the suggestion without an email.
C14_Witness ==
    /\ Built
    /\ ob.stats.skipped_duplicates = 1
    /\ \E i, j \in 1..Len(es) :
          /\ es[i].email = EmailPlain /\ es[j].email = EmailUpper
          /\ es[i].confidence > es[j].confidence
          /\ \E a \in Entries : a.suggestion = i
    /\ Cardinality({a \in Entries : a.email = <<>>}) = 1

\* The rows of messages that the build read for a key.
MessagesOf(key) == {m \in 1..ob.read : messages[m].company_key = key}

\* C15 as stated: the message looked up for a key is the most recently
\* inserted one of that key, and every entry of the company carries its
\* subject and body.
C15_MostRecentWins ==
    Built =>
        \A a \in Entries :
            MessagesOf(a.company_key) # {} =>
                LET last == CHOOSE m \in MessagesOf(a.company_key) :
                                \A n \in MessagesOf(a.company_key) : n <= m
                IN /\ a.subject = messages[last].subject
                   /\ a.body_text = messages[last].body_text

\* C15, amended: the message looked up for a key is the first inserted one
\* of that key (the lowest id), and every entry of the company carries its
\* subject and body.
C15_FirstInsertedWins ==
    Built =>
        \A a \in Entries :
            MessagesOf(a.company_key) # {} =>
                LET first == CHOOSE m \in MessagesOf(a.company_key) :
                                 \A n \in MessagesOf(a.company_key) : m <= n
                IN /\ a.subject = messages[first].subject
                   /\ a.body_text = messages[first].body_text

\* A build found two messages with different subjects for the company of
\* one of its entries.
C15_Witness ==
    /\ Built
    /\ \E a \in Entries :
          \E m, n \in MessagesOf(a.company_key) :
              m < n /\ messages[m].subject # messages[n].subject

(***************************************************************************)
(* The send run                                                            *)
(***************************************************************************)

\* C16: in a send run whose connection was established and whose stop flag
\* was set, no send starts after the flag is set, the run returns its
\* stats, every row that was not attempted is still READY and counted as
\* skipped, and sent + errors + skipped = total.
C16_StopAccounting ==
    (snd.pc = "done" /\ snd.connected /\ snd.stop) =>
        /\ snd.attempted = snd.atStop
        /\ snd.outcome = "returned"
        /\ snd.stats.skipped = snd.stats.total - snd.attempted
        /\ \A k \in (snd.attempted + 1)..Len(snd.rows) :
              \E e \in Entries : e.id = snd.rows[k].id /\ e.status = "READY"
        /\ snd.stats.sent + snd.stats.errors + snd.stats.skipped = snd.stats.total

\* C17: a send run attempts at most eff_max emails, the max_emails argument
\* when given and SEND_MAX_PER_RUN otherwise, with or without a list of
\* outbox ids.
C17_MaxPerRun == snd.attempted <= snd.eff_max

(***************************************************************************)
(* The company key                                                         *)
(***************************************************************************)

\* C21: normalize_company applied to a key returns the key:
\* normalize_company(normalize_company(x)) = normalize_company(x) for every
\* name x.
C21_Idempotent == nz.pc = "twice" => nz.again = nz.key

\* C22: "Acme SAS" and "ACME S.A.S.", which differ in letter case and in the
\* punctuation of the legal form, both have the key "acme".
C22_SuffixSpellings ==
    (nz.pc # "named" /\ nz.name \in {AcmeSAS, AcmeDotted})
        => nz.key = <<"a", "c", "m", "e">>

(***************************************************************************)
(* The caches under concurrent callers                                     *)
(***************************************************************************)

\* C23: with concurrent callers of find_domain, the value the cache file
\* holds for a key changes only when a resolution of that key stores its
\* result, so that a lookup never returns an older result once a newer one
\* was stored; and a key enters the file only with the result of a
\* resolution of that key, or with the value a caller had read for it.
C23_NoOlderResult ==
    [][\A k \in DOMAIN domainCache' :
          (k \notin DOMAIN domainCache \/ domainCache'[k] # domainCache[k]) =>
              \E c \in FdCallers :
                  /\ fd[c].pc # "done" /\ fd'[c].pc = "done"
                  /\ \/ fd[c].slug = k /\ fd'[c].result = domainCache'[k]
                     \/ /\ k \notin DOMAIN domainCache
                        /\ k \in DOMAIN fd[c].cache
                        /\ fd[c].cache[k] = domainCache'[k]]_vars

\* C24: a message that a completed check_bounces run has classified is
\* skipped by every later run: no run classifies a message that a completed
\* run had classified before.
C24_ClassifiedSkipped == bt.again = {}

(***************************************************************************)
(* Claims about a fresh resolution of find_domain (SpecDomain)             *)
(***************************************************************************)

\* The hosts a resolution asks _has_mx about, in order: a most frequent
\* candidate when the searches gave one, then the five guesses.
MostFrequent(tally, d) ==
    \E e \in 1..Len(tally) :
        /\ tally[e].d = d
        /\ \A o \in 1..Len(tally) : tally[e].n >= tally[o].n

Guessed(slug) == [i \in 1..Len(GuessTlds) |-> slug \o <<GuessTlds[i]>>]

RECURSIVE SumSeq(_)
SumSeq(q) == IF q = <<>> THEN 0 ELSE Head(q) + SumSeq(Tail(q))

\* C25: a resolution (two queries made) returns a most frequent candidate
\* of the searches if _has_mx accepts it, otherwise the first guess in the
\* order .fr, .com, .eu, .io, .net that _has_mx accepts, otherwise null;
\* a value it returns was accepted by _has_mx; a query that returns no link
\* adds no candidate and the resolution goes on.
C25_FreshResolution ==
    \A c \in FdCallers :
        (fd[c].pc = "done" /\ fd[c].q = 2) =>
            LET f == fd[c]
                n == Len(f.looked)
                searched == IF f.tally # <<>> THEN 1 ELSE 0
                guesses == Guessed(f.slug)
            IN  /\ Len(f.got) = 2
                /\ (f.got = <<0, 0>> => f.tally = <<>>)
                /\ SumSeq([e \in 1..Len(f.tally) |-> f.tally[e].n]) <= SumSeq(f.got)
                /\ n <= searched + Len(guesses)
                /\ searched = 1 => n >= 1 /\ MostFrequent(f.tally, f.looked[1].d)
                /\ \A i \in (searched + 1)..n : f.looked[i].d = guesses[i - searched]
                /\ \A i \in 1..(n - 1) : ~f.looked[i].has_mx
                /\ IF f.result # NoDomain
                   THEN n >= 1 /\ f.looked[n] = [d |-> f.result, has_mx |-> TRUE]
                   ELSE n = searched + Len(guesses) /\ ~f.looked[n].has_mx

\* C25's case: the first query returned nothing, the second gave two
\* candidates; the most frequent had no MX record and neither had the .fr
\* guess; the .com guess is returned.
C25_Witness ==
    \E c \in FdCallers :
        /\ fd[c].pc = "done" /\ fd[c].q = 2
        /\ fd[c].got[1] = 0
        /\ Len(fd[c].tally) = 2
        /\ Len(fd[c].looked) = 3
        /\ fd[c].result = fd[c].slug \o <<".com">>

\* C26: the crawl fetches at most max_pages pages, the key pages and the
\* links followed counted together.
C26_PageBudget == Len(cr.fetched) <= cr.max_pages

(***************************************************************************)
(* Claims about the address find_best_email returns (SpecVerify)           *)
(***************************************************************************)

\* C27: when no candidate was confirmed valid, the email returned
\* unverified is no address whose probe of this call reported invalid.
C27_NoInvalidReturned ==
    (fb.pc = "done" /\ fb.result.debug = "SMTP inconcluant") =>
        \A i \in 1..Len(fb.probes) :
            fb.probes[i].result = "invalid" => fb.result.email # fb.probes[i].email

\* C28: when the provider's verification reported the address built from
\* the provider's pattern as undeliverable, the email returned is not that
\* address, whatever known_pattern is.
C28_RejectedNotReturned ==
    (fb.pc = "done" /\ fb.verdict = "undeliverable") =>
        fb.result.email # fb.hunterEmail

(***************************************************************************)
(* Claims about the outbox over builds, send runs and bounce checks        *)
(* (SpecCampaign)                                                          *)
(***************************************************************************)

\* The row _send_single_email is about to be called for.
SendingRow == snd.rows[snd.i + 1]

\* C29: a send run sends a row and sets its status only if the row's status
\* is READY at that moment; a row a bounce check has set to BOUNCED or
\* INVALID is not sent and not set to SENT.
C29_SentOnlyIfReady ==
    [][(snd.pc = "sending" /\ snd'.pc = "details") =>
          \A k \in 1..Len(outbox) :
              outbox[k].id = SendingRow.id => outbox[k].status = "READY"]_vars

\* C30: no address is sent the message twice.
C30_NoAddressTwice ==
    \A i, j \in 1..Len(snd.delivered) :
        i < j => snd.delivered[i] # snd.delivered[j]

====
